---- MODULE Spec2Model ----
(***************************************************************************)
(* Model of DaSignatureParser/conversion_intelligence.js: the rule parser  *)
(* (SIEMRuleParser), the converter (SIEMRuleConverter) and its log.        *)
(*                                                                         *)
(* A JavaScript string is a sequence of one-character strings, so that     *)
(* trimming, splitting, matching and formatting are computed character by  *)
(* character as the code computes them.                                    *)
(***************************************************************************)
EXTENDS Integers, Sequences, FiniteSets, TLC

VARIABLES input, op, arg, result, conversionLog, parsedRules, raised, chain

vars == <<input, op, arg, result, conversionLog, parsedRules, raised, chain>>

(***************************************************************************)
(* String primitives of the JavaScript runtime used by the code.           *)
(***************************************************************************)
Range(f) == { f[i] : i \in DOMAIN f }

\* the letters and digits, in order
Alphabet ==
  [ upper  |-> <<"A","B","C","D","E","F","G","H","I","J","K","L","M",
                 "N","O","P","Q","R","S","T","U","V","W","X","Y","Z">>,
    lower  |-> <<"a","b","c","d","e","f","g","h","i","j","k","l","m",
                 "n","o","p","q","r","s","t","u","v","w","x","y","z">>,
    digits |-> <<"0","1","2","3","4","5","6","7","8","9">> ]

\* the character classes: white space, line terminators, digits, upper-case
\* letters and word characters
Chars ==
  [ space |-> {" ", "\t", "\n", "\r"},
    line  |-> {"\n", "\r"},
    digit |-> Range(Alphabet.digits),
    upper |-> Range(Alphabet.upper),
    word  |-> Range(Alphabet.upper) \cup Range(Alphabet.lower)
                \cup Range(Alphabet.digits) \cup {"_"} ]

\* a character class of a regular expression: \s (also what
\* String.prototype.trim removes), \w, a decimal digit, or . (which is
\* any character but a line terminator)
IsIn(class, c) == IF class = "dot" THEN c \notin Chars.line ELSE c \in Chars[class]

Min(S) == CHOOSE x \in S : \A y \in S : x <= y

Max(S) == 0 - Min({ 0 - x : x \in S })

FirstOr(S, d) == IF S = {} THEN d ELSE Min(S)

\* the first index of lo..hi whose character is not of the class, hi + 1 when
\* there is none: the range is halved and its left half searched first, so
\* that the evaluation stays shallow on long lines
RECURSIVE FirstNot(_, _, _, _)
FirstNot(s, lo, hi, class) ==
  IF lo > hi THEN hi + 1
  ELSE IF lo = hi THEN (IF IsIn(class, s[lo]) THEN hi + 1 ELSE lo)
  ELSE LET left == FirstNot(s, lo, (lo + hi) \div 2, class)
       IN IF left <= (lo + hi) \div 2 THEN left
          ELSE FirstNot(s, ((lo + hi) \div 2) + 1, hi, class)

\* the last index of lo..hi whose character is not of the class, lo - 1 when
\* there is none: the right half is searched first
RECURSIVE LastNot(_, _, _, _)
LastNot(s, lo, hi, class) ==
  IF lo > hi THEN lo - 1
  ELSE IF lo = hi THEN (IF IsIn(class, s[lo]) THEN lo - 1 ELSE lo)
  ELSE LET right == LastNot(s, ((lo + hi) \div 2) + 1, hi, class)
       IN IF right > (lo + hi) \div 2 THEN right
          ELSE LastNot(s, lo, (lo + hi) \div 2, class)

\* the last index j >= i-1 such that s[i..j] are all of the class (a greedy run)
RunEnd(s, i, class) == FirstNot(s, i, Len(s), class) - 1

\* the first index j <= i+1 such that s[j..i] are all of the class
RunStart(s, i, class) == LastNot(s, 1, i, class) + 1

\* s without its trailing white space, from index a on
TrimFrom(s, a) ==
  IF a > Len(s) THEN <<>>
  ELSE SubSeq(s, a, RunStart(s, Len(s), "space") - 1)

\* String.prototype.trim
Trim(s) == TrimFrom(s, RunEnd(s, 1, "space") + 1)

\* String.prototype.toLowerCase
LowerOf == [c \in Chars.upper |-> Alphabet.lower[CHOOSE i \in 1..26 : Alphabet.upper[i] = c]]

LowerChar(c) == IF c \in Chars.upper THEN LowerOf[c] ELSE c

ToLowerCase(s) == [i \in 1..Len(s) |-> LowerChar(s[i])]

\* s.substring(i-1, i-1+Len(sub)) === sub
MatchAt(s, i, sub) ==
  /\ i >= 1
  /\ i + Len(sub) - 1 <= Len(s)
  /\ SubSeq(s, i, i + Len(sub) - 1) = sub

\* String.prototype.includes
Includes(s, sub) == \E i \in 1..(Len(s) - Len(sub) + 1) : MatchAt(s, i, sub)

\* String.prototype.indexOf, 1-based; 0 when absent
IndexOf(s, sub) == FirstOr({ i \in 1..(Len(s) - Len(sub) + 1) : MatchAt(s, i, sub) }, 0)

StartsWith(s, sub) == MatchAt(s, 1, sub)

EndsWith(s, sub) == MatchAt(s, Len(s) - Len(sub) + 1, sub)

\* s with the occurrence of sub at index i (0: none) replaced
ReplaceAt(s, i, sub, by) ==
  IF i = 0 THEN s
  ELSE SubSeq(s, 1, i - 1) \o by \o SubSeq(s, i + Len(sub), Len(s))

\* String.prototype.replace with a string pattern: the first occurrence only
Replace(s, sub, by) == ReplaceAt(s, IndexOf(s, sub), sub, by)

\* String.prototype.split with a one-character separator, whose first
\* occurrence in s is at index i (0: none)
RECURSIVE Split(_, _)
SplitAt(s, i, sep) ==
  IF i = 0 THEN <<s>>
  ELSE <<SubSeq(s, 1, i - 1)>> \o Split(SubSeq(s, i + 1, Len(s)), sep)

Split(s, sep) == SplitAt(s, IndexOf(s, <<sep>>), sep)

\* Array.prototype.join
RECURSIVE Join(_, _)
Join(parts, sep) ==
  IF Len(parts) = 0 THEN <<>>
  ELSE IF Len(parts) = 1 THEN parts[1]
  ELSE parts[1] \o sep \o Join(Tail(parts), sep)

DigitValue(c) == (CHOOSE i \in 1..10 : Alphabet.digits[i] = c) - 1

RECURSIVE DigitsValue(_)
DigitsValue(ds) ==
  IF Len(ds) = 0 THEN 0
  ELSE 10 * DigitsValue(SubSeq(ds, 1, Len(ds) - 1)) + DigitValue(ds[Len(ds)])

\* a JavaScript number: <<n>>, or <<>> for NaN
NaN == <<>>

\* parseInt(s): leading white space, an optional sign, then the longest run
\* of decimal digits; NaN when there is no digit
ParseDigits(s, neg, b, e) ==
  IF e < b THEN NaN
  ELSE IF neg THEN <<0 - DigitsValue(SubSeq(s, b, e))>>
  ELSE <<DigitsValue(SubSeq(s, b, e))>>

ParseSigned(s, neg, b) == ParseDigits(s, neg, b, RunEnd(s, b, "digit"))

ParseFrom(s, a) ==
  ParseSigned(s, a <= Len(s) /\ s[a] = "-",
              IF a <= Len(s) /\ s[a] \in {"-", "+"} THEN a + 1 ELSE a)

ParseInt(s) == ParseFrom(s, RunEnd(s, 1, "space") + 1)

\* Number.prototype.toString of an integer
RECURSIVE NatToString(_)
NatToString(n) ==
  IF n < 10 THEN <<Alphabet.digits[n + 1]>>
  ELSE NatToString(n \div 10) \o <<Alphabet.digits[(n % 10) + 1]>>

NumberToString(n) == IF n < 0 THEN <<"-">> \o NatToString(0 - n) ELSE NatToString(n)

(***************************************************************************)
(* A plain JavaScript object with string values, as an ordered list of     *)
(* <<key, value>> pairs in property enumeration order.                     *)
(***************************************************************************)
ObjHas(o, k) == \E i \in 1..Len(o) : o[i][1] = k

ObjGet(o, k) == o[CHOOSE i \in 1..Len(o) : o[i][1] = k][2]

\* `o.k` used as a condition: an own property whose string is not empty
Truthy(o, k) == ObjHas(o, k) /\ ObjGet(o, k) # <<>>

\* `o.k || ''`
GetOrEmpty(o, k) == IF ObjHas(o, k) THEN ObjGet(o, k) ELSE <<>>

\* a canonical array index ("0", "17"): such keys enumerate first, ascending
IsArrayIndex(k) ==
  /\ Len(k) >= 1
  /\ Len(k) <= 9
  /\ \A i \in 1..Len(k) : IsIn("digit", k[i])
  /\ (Len(k) > 1 => k[1] # "0")

ProtoKey == <<"_","_","p","r","o","t","o","_","_">>

\* o[k] = v: an existing key keeps its place; a new array index is placed
\* among the array indices; any other new key goes last; assigning a string
\* to __proto__ changes nothing
ObjInsert(o, before, k, v) ==
  SubSeq(o, 1, before) \o <<<<k, v>>>> \o SubSeq(o, before + 1, Len(o))

ObjSet(o, k, v) ==
  IF k = ProtoKey THEN o
  ELSE IF ObjHas(o, k)
  THEN [i \in 1..Len(o) |-> IF o[i][1] = k THEN <<k, v>> ELSE o[i]]
  ELSE IF IsArrayIndex(k)
  THEN ObjInsert(o, Cardinality({ i \in 1..Len(o) :
                      IsArrayIndex(o[i][1]) /\ DigitsValue(o[i][1]) < DigitsValue(k) }), k, v)
  ELSE Append(o, <<k, v>>)

\* delete o.k
ObjDelete(o, k) == SelectSeq(o, LAMBDA e : e[1] # k)

(***************************************************************************)
(* SIEMRuleParser                                                          *)
(***************************************************************************)
ActionWords == { <<"a","l","e","r","t">>, <<"l","o","g">>, <<"p","a","s","s">>,
                 <<"d","r","o","p">>, <<"r","e","j","e","c","t">>,
                 <<"s","d","r","o","p">> }

IsArrow(s, m) == MatchAt(s, m, <<"-", ">">>) \/ MatchAt(s, m, <<"<", ">">>)

\* /^(alert|log|pass|drop|reject|sdrop)\s+\w+\s+.*(->|<>).*\(.*\)$/.test(t)
\* \s+ and \w+ can only end where their runs end (what follows the first
\* must be a word character, what follows the second a white space; what the
\* third leaves is matched by .*, which takes no line terminator)
rulePattern(t) ==
  \E a \in ActionWords :
    /\ StartsWith(t, a)
    /\ \E i \in { RunEnd(t, Len(a) + 1, "space") } :
       \E j \in { RunEnd(t, i + 1, "word") } :
       \E k \in { RunEnd(t, j + 1, "space") } :
          /\ i >= Len(a) + 1
          /\ j >= i + 1
          /\ k >= j + 1
          /\ k < Len(t)
          /\ \A x \in (k + 1)..Len(t) : IsIn("dot", t[x])
          /\ t[Len(t)] = ")"
          /\ \E m \in (k + 1)..Len(t) :
               /\ IsArrow(t, m)
               /\ \E q \in (m + 2)..(Len(t) - 1) : t[q] = "("

\* the tests of isValidRule on the trimmed line
isValidTrimmed(trimmed) ==
  IF trimmed = <<>> \/ trimmed[1] = "#" THEN FALSE
  ELSE rulePattern(trimmed)

isValidRule(line) == isValidTrimmed(Trim(line))

\* the iteration without the quote flag: every semicolon ends an option
splitStepUnquoted(st, char) ==
  IF char = ";"
  THEN [st EXCEPT !.parts = IF Trim(st.current) # <<>>
                            THEN Append(@, Trim(st.current)) ELSE @,
                  !.current = <<>>]
  ELSE [st EXCEPT !.current = Append(@, char)]

\* one iteration of the loop of splitOptions on character char: st holds
\* parts, current, inQuotes and quoteChar
splitStep(st, char) ==
  IF (char = "\"" \/ char = "'") /\ ~st.inQuotes
  THEN [st EXCEPT !.inQuotes = TRUE, !.quoteChar = char, !.current = Append(@, char)]
  ELSE IF char = st.quoteChar /\ st.inQuotes
  THEN [st EXCEPT !.inQuotes = FALSE, !.quoteChar = "", !.current = Append(@, char)]
  ELSE IF char = ";" /\ ~st.inQuotes
  THEN [st EXCEPT !.parts = IF Trim(st.current) # <<>>
                            THEN Append(@, Trim(st.current)) ELSE @,
                  !.current = <<>>]
  ELSE [st EXCEPT !.current = Append(@, char)]

\* the loop of splitOptions over characters lo..hi, taken from state st: the
\* characters are visited in order, the range being halved so that the
\* evaluation stays shallow on long option strings
RECURSIVE splitScan(_, _, _, _)
splitScan(s, lo, hi, st) ==
  IF lo > hi \/ st.inQuotes \notin BOOLEAN THEN st
  ELSE IF lo = hi THEN splitStep(st, s[lo])
  ELSE splitScan(s, ((lo + hi) \div 2) + 1, hi, splitScan(s, lo, (lo + hi) \div 2, st))

\* what splitOptions does after its loop
splitLast(st) ==
  IF Trim(st.current) # <<>> THEN Append(st.parts, Trim(st.current)) ELSE st.parts

splitOptions(optionsString) ==
  splitLast(splitScan(optionsString, 1, Len(optionsString),
              [parts |-> <<>>, current |-> <<>>, inQuotes |-> FALSE, quoteChar |-> ""]))

\* the string values the code writes and looks for
Value ==
  [ true      |-> <<"t","r","u","e">>,
    relative0 |-> <<"!","0",",","r","e","l","a","t","i","v","e">>,
    relative1 |-> <<"!","1",",","r","e","l","a","t","i","v","e">> ]

\* options[key] = value, less the double quotes around value
parseKeyValue(options, key, value) ==
  IF StartsWith(value, <<"\"">>) /\ EndsWith(value, <<"\"">>)
  THEN ObjSet(options, key, SubSeq(value, 2, Len(value) - 1))
  ELSE ObjSet(options, key, value)

\* an option without a colon
parseFlag(options, key) ==
  IF key # <<>> THEN ObjSet(options, key, Value.true) ELSE options

\* an option with its first colon at colonIndex
parseOptionAt(options, part, colonIndex) ==
  parseKeyValue(options, ToLowerCase(Trim(SubSeq(part, 1, colonIndex - 1))),
                Trim(SubSeq(part, colonIndex + 1, Len(part))))

\* one iteration of the loop of parseOptions
parseOptionPart(options, part) ==
  IF Includes(part, <<":">>)
  THEN parseOptionAt(options, part, IndexOf(part, <<":">>))
  ELSE parseFlag(options, ToLowerCase(Trim(part)))

RECURSIVE parseOptionParts(_, _)
parseOptionParts(options, parts) ==
  IF Len(parts) = 0 THEN options
  ELSE parseOptionParts(parseOptionPart(options, parts[1]), Tail(parts))

parseOptions(optionsString) == parseOptionParts(<<>>, splitOptions(optionsString))

\* the groups of headerMatch once the action a, the end i of the white space
\* after it, the end j of the protocol word and the places ks where the
\* white space after it can end are known
headerGroups(ruleLine, a, i, j, ks) ==
  IF i >= Len(a) + 1 /\ j >= i + 1 /\ ks # {}
  THEN <<a, SubSeq(ruleLine, i + 1, j),
         SubSeq(ruleLine, Max(ks) + 1, RunEnd(ruleLine, Max(ks) + 1, "dot"))>>
  ELSE <<>>

headerProtocol(ruleLine, a, i, j) ==
  headerGroups(ruleLine, a, i, j,
               { k \in (j + 1)..RunEnd(ruleLine, j + 1, "space") :
                   k < Len(ruleLine) /\ IsIn("dot", ruleLine[k + 1]) })

headerAction(ruleLine, a, i) == headerProtocol(ruleLine, a, i, RunEnd(ruleLine, i + 1, "word"))

\* ruleLine.match(/^(alert|log|pass|drop|reject|sdrop)\s+(\w+)\s+(.+)/):
\* <<>> when there is no match, else <<action, protocol, rest>>. The greedy
\* \s+ before (.+) gives back white space until a character that . takes
\* follows it.
headerMatch(ruleLine) ==
  IF \E a \in ActionWords : StartsWith(ruleLine, a)
  THEN \* no action word starts another: the alternation has one candidate
       headerAction(ruleLine, CHOOSE w \in ActionWords : StartsWith(ruleLine, w),
                    RunEnd(ruleLine, Len(CHOOSE w \in ActionWords : StartsWith(ruleLine, w)) + 1, "space"))
  ELSE <<>>

\* where the options block can open: (.+) needs a character before the
\* closing parenthesis
opensOf(rest) == { q \in 1..(Len(rest) - 2) : rest[q] = "(" }

\* the arrows that a destination and an options block can follow
arrowsOf(rest, opens) ==
  { m \in 2..Len(rest) : IsArrow(rest, m) /\ \E q \in opens : q >= m + 3 }

\* the shortest first group before the arrow at m: the white space before
\* the arrow is \s*, but for one character if nothing else is
FirstEnd(rest, m) == Max({ 1, RunStart(rest, m - 1, "space") - 1 })

\* the groups once the first group ends at i, the arrow is at m, the
\* destination starts at s3 and the options block opens at q: the shortest
\* destination ends before the white space before that block
directionGroups(rest, i, m, s3, q) ==
  <<SubSeq(rest, 1, i), SubSeq(rest, m, m + 1),
    SubSeq(rest, s3, Max({ s3, RunStart(rest, q - 1, "space") - 1 })),
    SubSeq(rest, q + 1, Len(rest) - 1)>>

directionDestination(rest, opens, i, m, s3) ==
  directionGroups(rest, i, m, s3, Min({ x \in opens : x >= s3 + 1 }))

\* \s* after the arrow: the most white space that leaves a character for
\* the destination before an options block
directionArrow(rest, opens, i, m) ==
  directionDestination(rest, opens, i, m,
    m + 2 + Max({ x \in 0..(RunEnd(rest, m + 2, "space") - (m + 2) + 1) :
                    \E q \in opens : q >= m + 2 + x + 1 }))

directionFirst(rest, opens, arrows, i) ==
  directionArrow(rest, opens, i, CHOOSE x \in arrows : FirstEnd(rest, x) = i)

directionOf(rest, opens, arrows) ==
  IF \/ Len(rest) = 0
     \/ rest[Len(rest)] # ")"
     \/ \E z \in 1..Len(rest) : ~IsIn("dot", rest[z])
     \/ arrows = {}
  THEN <<>>
  ELSE directionFirst(rest, opens, arrows, Min({ FirstEnd(rest, m) : m \in arrows }))

\* rest.match(/^(.+?)\s*(->|<>)\s*(.+?)\s*\((.+)\)$/): <<>> when there is no
\* match, else <<source, direction, destination, options>> (untrimmed).
\* (.+?) takes the fewest characters, \s* the most, that let the rest match;
\* (.+) runs to the last character, which must be ")".
directionMatch(rest) == directionOf(rest, opensOf(rest), arrowsOf(rest, opensOf(rest)))

\* the rule object parseRule starts from
emptyRule(ruleLine) ==
  [action |-> <<>>, protocol |-> <<>>, source |-> <<>>, destination |-> <<>>,
   direction |-> <<>>, options |-> <<>>, raw |-> Trim(ruleLine)]

parseDirection(rule, hm, dm) ==
  IF dm # <<>>
  THEN [rule EXCEPT !.action = hm[1], !.protocol = hm[2],
                    !.source = Trim(dm[1]), !.direction = dm[2],
                    !.destination = Trim(dm[3]),
                    !.options = parseOptions(dm[4])]
  ELSE [rule EXCEPT !.action = hm[1], !.protocol = hm[2]]

parseHeader(rule, hm) ==
  IF hm # <<>> THEN parseDirection(rule, hm, directionMatch(hm[3])) ELSE rule

parseRule(ruleLine) == parseHeader(emptyRule(ruleLine), headerMatch(ruleLine))

\* the map of parseRules over the lines its filter kept
parseEach(valid) == [i \in 1..Len(valid) |-> parseRule(valid[i])]

\* parseRules without its filter: every line is parsed
parseRulesUnfiltered(rulesText) == parseEach(Split(rulesText, "\n"))

parseRules(rulesText) == parseEach(SelectSeq(Split(rulesText, "\n"), isValidRule))

\* one iteration of the loop of formatRule: the text of one option
formatOption(key, value) ==
  IF value = Value.true THEN key
  ELSE IF Includes(value, <<" ">>) \/ Includes(value, <<"|">>)
  THEN key \o <<":", "\"">> \o value \o <<"\"">>
  ELSE key \o <<":">> \o value

\* the options.push of each iteration of the loop of formatRule
formatOptions(options) ==
  [i \in 1..Len(options) |-> formatOption(options[i][1], options[i][2])]

formatRule(rule) ==
  rule.action \o <<" ">> \o rule.protocol \o <<" ">> \o rule.source \o <<" ">>
    \o rule.direction \o <<" ">> \o rule.destination \o <<" ", "(">>
    \o Join(formatOptions(rule.options), <<";", " ">>) \o <<";", ")">>

(***************************************************************************)
(* SIEMRuleConverter                                                       *)
(***************************************************************************)
\* the option keys the converter reads and writes (dot_: the keys it writes
\* with a dot)
Key ==
  [ http_uri |-> <<"h","t","t","p","_","u","r","i">>,
    http_user_agent |-> <<"h","t","t","p","_","u","s","e","r","_","a","g","e","n","t">>,
    http_cookie |-> <<"h","t","t","p","_","c","o","o","k","i","e">>,
    http_header |-> <<"h","t","t","p","_","h","e","a","d","e","r">>,
    http_request_body |-> <<"h","t","t","p","_","r","e","q","u","e","s","t","_","b","o","d","y">>,
    http_content |-> <<"h","t","t","p","_","c","o","n","t","e","n","t">>,
    dot_http_header |-> <<"h","t","t","p",".","h","e","a","d","e","r">>,
    dot_http_content |-> <<"h","t","t","p",".","c","o","n","t","e","n","t">>,
    dot_http_request_body |-> <<"h","t","t","p",".","r","e","q","u","e","s","t","_","b","o","d","y">>,
    content |-> <<"c","o","n","t","e","n","t">>,
    msg |-> <<"m","s","g">>,
    sid |-> <<"s","i","d">>,
    reference |-> <<"r","e","f","e","r","e","n","c","e">>,
    classtype |-> <<"c","l","a","s","s","t","y","p","e">>,
    urilen |-> <<"u","r","i","l","e","n">>,
    isdataat |-> <<"i","s","d","a","t","a","a","t">>,
    dns_query |-> <<"d","n","s","_","q","u","e","r","y">>,
    fast_pattern |-> <<"f","a","s","t","_","p","a","t","t","e","r","n">>,
    openappid |-> <<"o","p","e","n","a","p","p","i","d">>,
    appid |-> <<"a","p","p","i","d">>,
    flowbits |-> <<"f","l","o","w","b","i","t","s">>,
    pcre |-> <<"p","c","r","e">>,
    bsize |-> <<"b","s","i","z","e">>,
    file_data |-> <<"f","i","l","e","_","d","a","t","a">>,
    metadata |-> <<"m","e","t","a","d","a","t","a">>,
    tls |-> <<<<"t","l","s","_","c","e","r","t","_","s","u","b","j","e","c","t">>, <<"t","l","s","_","f","i","n","g","e","r","p","r","i","n","t">>, <<"t","l","s","_","v","e","r","s","i","o","n">>,
            <<"t","l","s","_","s","u","b","j","e","c","t">>, <<"t","l","s","_","i","s","s","u","e","r","d","n">>>>,
    file |-> <<<<"f","i","l","e","_","d","a","t","a">>, <<"f","i","l","e","_","e","x","t">>, <<"f","i","l","e","s","t","o","r","e">>, <<"f","i","l","e","e","x","t">>,
             <<"f","i","l","e","m","a","g","i","c">>, <<"f","i","l","e","m","d","5">>, <<"f","i","l","e","s","h","a","1">>, <<"f","i","l","e","s","h","a","2","5","6">>>> ]

SidOffset == 1000000

\* the working state of a single-rule conversion: the local `options`, the
\* protocol of `convertedRule`, and the entries passed to this.log so far
Entry(message, type) == [message |-> message, type |-> type]

Logged(c, message, type) == [c EXCEPT !.log = Append(@, Entry(message, type))]

Assigned(c, k, v) == [c EXCEPT !.options = ObjSet(@, k, v)]

Deleted(c, k) == [c EXCEPT !.options = ObjDelete(@, k)]

RECURSIVE DeletedAll(_, _)
DeletedAll(c, ks) == IF Len(ks) = 0 THEN c ELSE DeletedAll(Deleted(c, ks[1]), Tail(ks))

AnyTruthy(o, ks) == \E i \in 1..Len(ks) : Truthy(o, ks[i])

\* a < b on JavaScript numbers: false when either is NaN
NumLess(a, b) == a # NaN /\ b # NaN /\ a[1] < b[1]

\* obj itself, not a copy: writes reach obj
alias(obj) == [shared |-> TRUE, obj |-> obj]

\* { ...obj }: a new object with the same own properties; writes to the copy
\* do not reach obj
spread(obj) == [shared |-> FALSE, obj |-> obj]

\* the state of the caller's rule object once a conversion that worked on
\* ruleCopy and optionsCopy has ended in the working state c
ruleAfter(rule, ruleCopy, optionsCopy, c) ==
  IF ruleCopy.shared
  THEN [rule EXCEPT !.protocol = c.protocol, !.options = c.options]
  ELSE IF optionsCopy.shared
  THEN [rule EXCEPT !.options = c.options]
  ELSE rule

isWebTraffic(rule) ==
  \/ Includes(GetOrEmpty(rule.options, Key.content), <<"h","t","t","p">>)
  \/ Includes(GetOrEmpty(rule.options, Key.content), <<"/">>)
  \/ Includes(ToLowerCase(GetOrEmpty(rule.options, Key.msg)), <<"w","e","b">>)
  \/ Includes(ToLowerCase(GetOrEmpty(rule.options, Key.msg)), <<"h","t","t","p">>)
  \/ Includes(rule.destination, <<"8","0">>)
  \/ Includes(rule.destination, <<"8","0","8","0">>)
  \/ Includes(rule.destination, <<"4","4","3">>)

isTLSTraffic(rule) ==
  \/ Includes(GetOrEmpty(rule.options, Key.content), <<"t","l","s">>)
  \/ Includes(GetOrEmpty(rule.options, Key.content), <<"s","s","l">>)
  \/ Includes(ToLowerCase(GetOrEmpty(rule.options, Key.msg)), <<"t","l","s">>)
  \/ Includes(ToLowerCase(GetOrEmpty(rule.options, Key.msg)), <<"s","s","l">>)
  \/ Includes(rule.destination, <<"4","4","3">>)

isDNSTraffic(rule) ==
  \/ Includes(GetOrEmpty(rule.options, Key.content), <<".","c","o","m">>)
  \/ Includes(GetOrEmpty(rule.options, Key.content), <<".","o","r","g">>)
  \/ Includes(GetOrEmpty(rule.options, Key.content), <<".","n","e","t">>)
  \/ Includes(ToLowerCase(GetOrEmpty(rule.options, Key.msg)), <<"d","n","s">>)
  \/ Includes(ToLowerCase(GetOrEmpty(rule.options, Key.msg)), <<"q","u","e","r","y">>)
  \/ Includes(rule.destination, <<"5","3">>)

isFileContent(rule) ==
  \/ Includes(GetOrEmpty(rule.options, Key.content), <<".","e","x","e">>)
  \/ Includes(GetOrEmpty(rule.options, Key.content), <<".","p","d","f">>)
  \/ Includes(GetOrEmpty(rule.options, Key.content), <<".","d","o","c">>)
  \/ Includes(GetOrEmpty(rule.options, Key.content), <<"M","Z">>)
  \/ Includes(GetOrEmpty(rule.options, Key.content), <<"P","K">>)
  \/ Includes(ToLowerCase(GetOrEmpty(rule.options, Key.msg)), <<"f","i","l","e">>)
  \/ Includes(ToLowerCase(GetOrEmpty(rule.options, Key.msg)), <<"u","p","l","o","a","d">>)
  \/ Includes(ToLowerCase(GetOrEmpty(rule.options, Key.msg)), <<"m","a","l","w","a","r","e">>)

(***************************************************************************)
(* convertSingleRuleToSnort: one definition per `if` of the code, in its   *)
(* order, each taking the working state c to the next.                     *)
(***************************************************************************)
snortHttpUri(c) ==
  IF Truthy(c.options, Key.http_uri)
  THEN Assigned(Logged(c, <<"Converting http.uri to http.uri content matching">>, "info"),
                Key.http_uri, Value.true)
  ELSE c

\* `if (options.content) options['http.header'] = true`
headerOnContent(d) ==
  IF Truthy(d.options, Key.content) THEN Assigned(d, Key.dot_http_header, Value.true) ELSE d

snortHttpUserAgent(c) ==
  IF Truthy(c.options, Key.http_user_agent)
  THEN headerOnContent(Deleted(Logged(c, <<"Converting http.user_agent to http.header with User-Agent pattern">>, "warning"),
                               Key.http_user_agent))
  ELSE c

snortHttpCookie(c) ==
  IF Truthy(c.options, Key.http_cookie)
  THEN headerOnContent(Deleted(Logged(c, <<"Converting http.cookie to http.header with Cookie pattern">>, "warning"),
                               Key.http_cookie))
  ELSE c

snortHttpHeader(c) ==
  IF Truthy(c.options, Key.http_header)
  THEN Logged(c, <<"Converting http.header to http.header (compatible)">>, "info")
  ELSE c

snortHttpRequestBody(c) ==
  IF Truthy(c.options, Key.http_request_body)
  THEN Deleted(Assigned(Logged(c, <<"Converting http.request_body to http.content">>, "info"),
                        Key.dot_http_content, Value.true),
               Key.http_request_body)
  ELSE c

snortTls(c) ==
  IF AnyTruthy(c.options, Key.tls)
  THEN DeletedAll(Logged(c, <<"Converting Suricata TLS options to content matching">>, "warning"),
                  Key.tls)
  ELSE c

snortFile(c) ==
  IF AnyTruthy(c.options, Key.file)
  THEN DeletedAll(Logged(c, <<"Converting Suricata file extraction options to content matching">>, "warning"),
                  Key.file)
  ELSE c

\* the protocol mapping on rule.protocol as written, not in lower case
snortProtocolAsWritten(c, protocol, proto) ==
  IF protocol \in { <<"h","t","t","p">>, <<"t","l","s">>, <<"s","m","t","p">>, <<"f","t","p">> }
  THEN [Logged(c, <<"Converting ", protocol, " protocol to TCP for Snort">>, "warning")
          EXCEPT !.protocol = <<"t","c","p">>]
  ELSE IF protocol = <<"d","n","s">>
  THEN [Logged(c, <<"Converting DNS protocol to UDP for Snort">>, "warning")
          EXCEPT !.protocol = <<"u","d","p">>]
  ELSE c

\* the protocol mapping, on rule.protocol.toLowerCase()
snortProtocol(c, protocol, proto) ==
  IF proto = <<"h","t","t","p">>
  THEN [Logged(c, <<"Converting HTTP protocol to TCP for Snort">>, "warning")
          EXCEPT !.protocol = <<"t","c","p">>]
  ELSE IF proto = <<"d","n","s">>
  THEN [Logged(c, <<"Converting DNS protocol to UDP for Snort">>, "warning")
          EXCEPT !.protocol = <<"u","d","p">>]
  ELSE IF proto \in { <<"t","l","s">>, <<"s","m","t","p">>, <<"f","t","p">> }
  THEN [Logged(c, <<"Converting ", protocol, " protocol to TCP for Snort">>, "warning")
          EXCEPT !.protocol = <<"t","c","p">>]
  ELSE c

snortDnsQuery(c) ==
  IF Truthy(c.options, Key.dns_query)
  THEN Deleted(Logged(c, <<"Converting dns.query to content matching">>, "warning"),
               Key.dns_query)
  ELSE c

\* options.sid = newSid.toString(), logged with the message of the target
sidAdjusted(c, newSid, target) ==
  Assigned(Logged(c, <<"Adjusting SID from ", ObjGet(c.options, Key.sid), " to ",
                       newSid, target>>, "warning"),
           Key.sid, newSid)

\* the SID left as it is
snortSidKept(c) == c

snortSid(c) ==
  IF Truthy(c.options, Key.sid)
     /\ NumLess(ParseInt(ObjGet(c.options, Key.sid)), <<SidOffset>>)
  THEN sidAdjusted(c, NumberToString(ParseInt(ObjGet(c.options, Key.sid))[1] + SidOffset),
                   " for Snort compatibility")
  ELSE c

snortReference(c) ==
  IF /\ ~Truthy(c.options, Key.reference)
     /\ Truthy(c.options, Key.msg)
     /\ Includes(ToLowerCase(ObjGet(c.options, Key.msg)), <<"m","a","l","w","a","r","e">>)
  THEN Logged(Assigned(c, Key.reference, <<"u","r","l",",","v","i","r","u","s","t","o","t","a","l",".","c","o","m">>),
              <<"Added reference URL for malware detection rule">>, "info")
  ELSE c

snortClasstype(c) ==
  IF /\ Truthy(c.options, Key.classtype)
     /\ ~Includes(ObjGet(c.options, Key.classtype), <<"w","e","b","-","a","p","p","l","i","c","a","t","i","o","n","-","a","t","t","a","c","k">>)
  THEN Logged(c, <<"Preserving classtype for Snort compatibility">>, "info")
  ELSE c

snortUrilen(c) ==
  IF Truthy(c.options, Key.urilen)
  THEN Logged(c, <<"Converting urilen range from Suricata (exclusive) to Snort (inclusive)">>, "warning")
  ELSE c

snortIsdataat(c) ==
  IF /\ Truthy(c.options, Key.isdataat)
     /\ Includes(ObjGet(c.options, Key.isdataat), Value.relative1)
  THEN Assigned(Logged(c, <<"Converting isdataat from Suricata (!1,relative) to Snort (!0,relative)">>, "warning"),
                Key.isdataat, Replace(ObjGet(c.options, Key.isdataat), Value.relative1, Value.relative0))
  ELSE c

\* the body of convertSingleRuleToSnort between the two copies and the
\* final formatRule
snortSteps(rule, c0) ==
  snortIsdataat(snortUrilen(snortClasstype(snortReference(snortSid(snortDnsQuery(
    snortProtocol(
      snortFile(snortTls(snortHttpRequestBody(snortHttpHeader(snortHttpCookie(
        snortHttpUserAgent(snortHttpUri(c0))))))),
      rule.protocol, ToLowerCase(rule.protocol))))))))

\* what a single-rule conversion returns and leaves, c being the working
\* state at its end
singleResult(rule, convertedRule, options, c) ==
  [text |-> formatRule([convertedRule.obj EXCEPT !.protocol = c.protocol, !.options = c.options]),
   log  |-> c.log,
   rule |-> ruleAfter(rule, convertedRule, options, c)]

\* the working state at the start: the two copies, nothing logged
workingState(convertedRule, options) ==
  [options |-> options.obj, protocol |-> convertedRule.obj.protocol, log |-> <<>>]

snortOnCopies(rule, convertedRule, options) ==
  singleResult(rule, convertedRule, options,
               snortSteps(rule, workingState(convertedRule, options)))

\* convertSingleRuleToSnort(rule): the text returned, the entries logged on
\* the way, and the caller's rule object as the call leaves it
convertSingleRuleToSnort(rule) == snortOnCopies(rule, spread(rule), spread(rule.options))

(***************************************************************************)
(* convertSingleRuleToSuricata, in the same way.                           *)
(***************************************************************************)
suricataFastPattern(c) ==
  IF Truthy(c.options, Key.fast_pattern)
  THEN Deleted(Logged(c, <<"Removing fast_pattern (not needed in Suricata)">>, "info"),
               Key.fast_pattern)
  ELSE c

suricataAppid(c) ==
  IF Truthy(c.options, Key.openappid) \/ Truthy(c.options, Key.appid)
  THEN Deleted(Deleted(Logged(c, <<"Converting OpenAppID to protocol detection">>, "warning"),
                       Key.openappid), Key.appid)
  ELSE c

suricataFlowbits(c) ==
  IF Truthy(c.options, Key.flowbits)
  THEN Logged(c, <<"Preserving flowbits (compatible with Suricata)">>, "info")
  ELSE c

suricataPcre(c) ==
  IF Truthy(c.options, Key.pcre)
  THEN Logged(c, <<"Preserving PCRE pattern (compatible with Suricata)">>, "info")
  ELSE c

suricataHttpContent(c) ==
  IF Truthy(c.options, Key.http_content)
  THEN Deleted(Assigned(Logged(c, <<"Converting http.content to http.request_body">>, "info"),
                        Key.dot_http_request_body, Value.true),
               Key.http_content)
  ELSE c

\* `if (options.content && (content has '/' or 'http')) options.http_uri = true`
uriOnContent(d) ==
  IF /\ Truthy(d.options, Key.content)
     /\ \/ Includes(ObjGet(d.options, Key.content), <<"/">>)
        \/ Includes(ObjGet(d.options, Key.content), <<"h","t","t","p">>)
  THEN Assigned(d, Key.http_uri, Value.true)
  ELSE d

suricataWeb(c, rule, proto) ==
  IF proto = <<"t","c","p">> /\ isWebTraffic(rule)
  THEN uriOnContent([Logged(c, <<"Converting TCP to HTTP protocol for better detection">>, "info")
                       EXCEPT !.protocol = <<"h","t","t","p">>])
  ELSE c

suricataTls(c, rule, proto) ==
  IF proto = <<"t","c","p">> /\ isTLSTraffic(rule)
  THEN [Logged(c, <<"Converting TCP to TLS protocol for better detection">>, "info")
          EXCEPT !.protocol = <<"t","l","s">>]
  ELSE c

\* `if (options.content && !options.dns_query) options.dns_query = true`
queryOnContent(d) ==
  IF Truthy(d.options, Key.content) /\ ~Truthy(d.options, Key.dns_query)
  THEN Assigned(d, Key.dns_query, Value.true)
  ELSE d

suricataDns(c, rule, proto) ==
  IF proto = <<"u","d","p">> /\ isDNSTraffic(rule)
  THEN queryOnContent([Logged(c, <<"Converting UDP to DNS protocol for better detection">>, "info")
                         EXCEPT !.protocol = <<"d","n","s">>])
  ELSE c

\* `if (content.includes('mozilla/5.0')) options.bsize = '11'`
bsizeOnMozilla(d, content) ==
  IF Includes(content, <<"m","o","z","i","l","l","a","/","5",".","0">>)
  THEN Logged(Assigned(d, Key.bsize, <<"1","1">>),
              <<"Added bsize:11 optimization for User-Agent matching">>, "info")
  ELSE d

\* the header specialisation, on options.content.toLowerCase()
headerSpecialised(c, content) ==
  IF Includes(content, <<"u","s","e","r","-","a","g","e","n","t">>) \/ Includes(content, <<"m","o","z","i","l","l","a">>)
  THEN bsizeOnMozilla(Deleted(Assigned(Logged(c, <<"Converting generic http.header to specific http.user_agent">>, "info"),
                                       Key.http_user_agent, Value.true),
                              Key.http_header),
                      content)
  ELSE IF Includes(content, <<"c","o","o","k","i","e">>)
  THEN Deleted(Assigned(Logged(c, <<"Converting generic http.header to specific http.cookie">>, "info"),
                        Key.http_cookie, Value.true),
               Key.http_header)
  ELSE c

suricataHttpHeader(c) ==
  IF Truthy(c.options, Key.http_header) /\ Truthy(c.options, Key.content)
  THEN headerSpecialised(c, ToLowerCase(ObjGet(c.options, Key.content)))
  ELSE c

\* the subtraction taken from the offset on, not from above it
suricataSidFromOffset(c) ==
  IF Truthy(c.options, Key.sid)
     /\ ~NumLess(ParseInt(ObjGet(c.options, Key.sid)), <<SidOffset>>)
  THEN sidAdjusted(c, NumberToString(ParseInt(ObjGet(c.options, Key.sid))[1] - SidOffset),
                   " for Suricata compatibility")
  ELSE c

suricataSid(c) ==
  IF Truthy(c.options, Key.sid)
     /\ NumLess(<<SidOffset>>, ParseInt(ObjGet(c.options, Key.sid)))
  THEN sidAdjusted(c, NumberToString(ParseInt(ObjGet(c.options, Key.sid))[1] - SidOffset),
                   " for Suricata compatibility")
  ELSE c

suricataFileData(c, rule) ==
  IF Truthy(c.options, Key.content) /\ isFileContent(rule)
  THEN Assigned(Logged(c, <<"Adding file detection capabilities for Suricata">>, "info"),
                Key.file_data, Value.true)
  ELSE c

suricataUrilen(c) ==
  IF Truthy(c.options, Key.urilen)
  THEN Logged(c, <<"Converting urilen range from Snort (inclusive) to Suricata (exclusive)">>, "warning")
  ELSE c

\* the isdataat value left as the rule has it
suricataIsdataatKept(c) == c

suricataIsdataat(c) ==
  IF /\ Truthy(c.options, Key.isdataat)
     /\ Includes(ObjGet(c.options, Key.isdataat), Value.relative0)
  THEN Assigned(Logged(c, <<"Converting isdataat from Snort (!0,relative) to Suricata (!1,relative)">>, "warning"),
                Key.isdataat, Replace(ObjGet(c.options, Key.isdataat), Value.relative0, Value.relative1))
  ELSE c

suricataMetadata(c) ==
  IF ~Truthy(c.options, Key.metadata)
  THEN Assigned(c, Key.metadata, <<"c","o","n","v","e","r","t","e","d","_","f","r","o","m","_","s","n","o","r","t">>)
  ELSE c

\* the three protocol promotions, on rule.protocol.toLowerCase()
suricataProtocol(c, rule, proto) ==
  suricataDns(suricataTls(suricataWeb(c, rule, proto), rule, proto), rule, proto)

\* the body of convertSingleRuleToSuricata between the two copies and the
\* final formatRule
suricataSteps(rule, c0) ==
  suricataMetadata(suricataIsdataat(suricataUrilen(
    suricataFileData(
      suricataSid(suricataHttpHeader(
        suricataProtocol(
          suricataHttpContent(suricataPcre(suricataFlowbits(suricataAppid(
            suricataFastPattern(c0))))),
          rule, ToLowerCase(rule.protocol)))),
      rule))))

suricataOnCopies(rule, convertedRule, options) ==
  singleResult(rule, convertedRule, options,
               suricataSteps(rule, workingState(convertedRule, options)))

\* convertSingleRuleToSuricata(rule): as convertSingleRuleToSnort
convertSingleRuleToSuricata(rule) == suricataOnCopies(rule, spread(rule), spread(rule.options))

\* the log kept from the runs before: nothing is cleared
clearLogSkipped(log) == log

\* clearLog(), on this.conversionLog: the log it leaves
clearLog(log) == <<>>

\* no exception is raised in this run
NoRaise == [rule |-> 0, at |-> 0]

\* error.message of the exception a raise carries
raisedMessage == <<"r","a","i","s","e","d">>

\* the iteration without its catch block: the try block always completes
convertIterationUncaught(i, single, raise) ==
  [text |-> single.text,
   log  |-> Append(single.log,
                   Entry(<<"Converted rule SID ",
                           IF Truthy(single.rule.options, Key.sid)
                           THEN ObjGet(single.rule.options, Key.sid)
                           ELSE <<"u","n","k","n","o","w","n">>>>, "success")),
   rule |-> single.rule]

\* one iteration of the loop of convertToSnort / convertToSuricata on the
\* i-th parsed rule, single being what the single-rule conversion does on
\* it. With raise.rule = i the conversion raises after it has logged
\* raise.at entries and the catch block runs; otherwise the try block
\* completes.
convertIteration(i, single, raise) ==
  IF raise.rule = i
  THEN [text |-> formatRule(single.rule),
        log  |-> Append(SubSeq(single.log, 1, raise.at),
                        Entry(<<"Error converting rule: ", raisedMessage>>, "error")),
        rule |-> single.rule]
  ELSE [text |-> single.text,
        log  |-> Append(single.log,
                        Entry(<<"Converted rule SID ",
                                IF Truthy(single.rule.options, Key.sid)
                                THEN ObjGet(single.rule.options, Key.sid)
                                ELSE <<"u","n","k","n","o","w","n">>>>, "success")),
        rule |-> single.rule]

RECURSIVE Flatten(_)
Flatten(seqs) == IF Len(seqs) = 0 THEN <<>> ELSE seqs[1] \o Flatten(Tail(seqs))

\* a run that logs the entries of the last rule first
conversionRunLastFirst(startMessage, iterations) ==
  [result |-> Join([i \in 1..Len(iterations) |-> iterations[i].text], <<"\n">>),
   log    |-> <<Entry(<<startMessage>>, "info")>>
              \o Flatten([i \in 1..Len(iterations) |-> iterations[Len(iterations) + 1 - i].log])
              \o <<Entry(<<"Conversion complete. ", NumberToString(Len(iterations)), " rules processed.">>, "info")>>,
   rules  |-> [i \in 1..Len(iterations) |-> iterations[i].rule]]

\* what a conversion run leaves: the text returned, this.conversionLog, and
\* the parsed rule objects
conversionRun(startMessage, iterations) ==
  [result |-> Join([i \in 1..Len(iterations) |-> iterations[i].text], <<"\n">>),
   log    |-> <<Entry(<<startMessage>>, "info")>>
              \o Flatten([i \in 1..Len(iterations) |-> iterations[i].log])
              \o <<Entry(<<"Conversion complete. ", NumberToString(Len(iterations)), " rules processed.">>, "info")>>,
   rules  |-> [i \in 1..Len(iterations) |-> iterations[i].rule]]

\* what convertSingleRuleToSnort does on each rule of the text
convertEachToSnort(rules) == [i \in 1..Len(rules) |-> convertSingleRuleToSnort(rules[i])]

convertToSnortRun(singles, raise) ==
  conversionRun("Starting conversion to Snort format...",
                [i \in 1..Len(singles) |-> convertIteration(i, singles[i], raise)])

convertToSnort(rulesText, raise) ==
  convertToSnortRun(convertEachToSnort(parseRules(rulesText)), raise)

convertEachToSuricata(rules) == [i \in 1..Len(rules) |-> convertSingleRuleToSuricata(rules[i])]

convertToSuricataRun(singles, raise) ==
  conversionRun("Starting conversion to Suricata format...",
                [i \in 1..Len(singles) |-> convertIteration(i, singles[i], raise)])

convertToSuricata(rulesText, raise) ==
  convertToSuricataRun(convertEachToSuricata(parseRules(rulesText)), raise)

(***************************************************************************)
(* SIEMRuleParser.detectRuleType                                           *)
(***************************************************************************)
AppProtocols == { <<"h","t","t","p">>, <<"t","l","s">>, <<"d","n","s">>, <<"s","m","t","p">>, <<"f","t","p">> }

\* line.match(/alert\s+(http|tls|dns|smtp|ftp)\s+/i)
alertAppProtocol(line) ==
  \E l \in { ToLowerCase(line) } :
  \E i \in 1..Len(l) :
    /\ MatchAt(l, i, <<"a","l","e","r","t">>)
    /\ \E e \in { RunEnd(l, i + 5, "space") } :
         /\ e >= i + 5
         /\ \E pr \in AppProtocols :
              /\ MatchAt(l, e + 1, pr)
              /\ e + Len(pr) + 1 <= Len(l)
              /\ IsIn("space", l[e + Len(pr) + 1])

IncludesAny(line, subs) == \E sub \in subs : Includes(line, sub)

snortScoreOf(line) ==
    (IF IncludesAny(line, { <<"f","a","s","t","_","p","a","t","t","e","r","n">>, <<"o","p","e","n","a","p","p","i","d">>, <<"a","p","p","i","d",":">> }) THEN 3 ELSE 0)
  + (IF IncludesAny(line, { <<"h","t","t","p",".","c","o","n","t","e","n","t">>, <<"h","t","t","p",".","m","e","t","h","o","d">> }) THEN 2 ELSE 0)
  + (IF Includes(line, <<"m","e","t","a","d","a","t","a",":">>) /\ ~Includes(line, <<"h","t","t","p",".">>) /\ ~Includes(line, <<"t","l","s",".">>)
     THEN 2 ELSE 0)
  + (IF IncludesAny(line, { <<"u","r","i","l","e","n",":">>, Value.relative0 }) THEN 1 ELSE 0)

suricataScoreOf(line) ==
    (IF IncludesAny(line, { <<"h","t","t","p",".","r","e","q","u","e","s","t","_","b","o","d","y">>, <<"h","t","t","p",".","u","s","e","r","_","a","g","e","n","t">>, <<"d","n","s",".","q","u","e","r","y">> }) THEN 3 ELSE 0)
  + (IF IncludesAny(line, { <<"b","s","i","z","e",":">>, <<"t","l","s",".">>, <<"f","i","l","e","_">> }) THEN 2 ELSE 0)
  + (IF IncludesAny(line, { <<"f","i","l","e","s","t","o","r","e">>, <<"f","i","l","e","e","x","t">>, <<"f","i","l","e","m","a","g","i","c">>, <<"f","i","l","e","m","d","5">>,
                            <<"f","i","l","e","s","h","a","1">>, <<"f","i","l","e","s","h","a","2","5","6">> }) THEN 3 ELSE 0)
  + (IF IncludesAny(line, { Value.relative1, <<"t","l","s",".","s","u","b","j","e","c","t">>, <<"t","l","s",".","i","s","s","u","e","r","d","n">> }) THEN 1 ELSE 0)
  + (IF alertAppProtocol(line) THEN 2 ELSE 0)

RECURSIVE SumOver(_, _)
SumOver(f, n) == IF n = 0 THEN 0 ELSE f[n] + SumOver(f, n - 1)

\* a verdict that gives a tie to Snort
verdictTieToSnort(snortScore, suricataScore) ==
  IF snortScore >= suricataScore THEN <<"s","n","o","r","t">>
  ELSE <<"s","u","r","i","c","a","t","a">>

\* the verdict of detectRuleType from the two accumulated scores
verdict(snortScore, suricataScore) ==
  IF snortScore > suricataScore THEN <<"s","n","o","r","t">>
  ELSE IF suricataScore > snortScore THEN <<"s","u","r","i","c","a","t","a">>
  ELSE <<"u","n","k","n","o","w","n">>

\* the loop of detectRuleType over the lines that are not blank
scoreLines(lines) ==
  verdict(SumOver([i \in 1..Len(lines) |->
                     IF isValidRule(lines[i]) THEN snortScoreOf(lines[i]) ELSE 0], Len(lines)),
          SumOver([i \in 1..Len(lines) |->
                     IF isValidRule(lines[i]) THEN suricataScoreOf(lines[i]) ELSE 0], Len(lines)))

detectRuleType(rules) ==
  scoreLines(SelectSeq(Split(rules, "\n"), LAMBDA line : Trim(line) # <<>>))

(***************************************************************************)
(* ConversionIntelligence                                                  *)
(***************************************************************************)
\* a diff that reports the added options only
identifyChangesAddedOnly(original, converted) ==
  LET convertedOptions == [i \in 1..Len(converted.options) |-> converted.options[i][1]]
      added == SelectSeq(convertedOptions, LAMBDA opt : ~ObjHas(original.options, opt))
  IN [i \in 1..Len(added) |->
        [type |-> "option_added", option |-> added[i], impact |-> "low",
         description |-> <<"Added ", added[i], " option for target system compatibility">>]]

identifyChanges(original, converted) ==
  LET originalOptions == [i \in 1..Len(original.options) |-> original.options[i][1]]
      convertedOptions == [i \in 1..Len(converted.options) |-> converted.options[i][1]]
      added == SelectSeq(convertedOptions, LAMBDA opt : \A k \in 1..Len(originalOptions) : originalOptions[k] # opt)
      removed == SelectSeq(originalOptions, LAMBDA opt : \A k \in 1..Len(convertedOptions) : convertedOptions[k] # opt)
  IN (IF original.protocol # converted.protocol
      THEN << [type |-> "protocol", from |-> original.protocol, to |-> converted.protocol, impact |-> "medium",
               description |-> <<"Protocol changed from ", original.protocol, " to ", converted.protocol>>] >>
      ELSE <<>>)
     \o [i \in 1..Len(added) |->
           [type |-> "option_added", option |-> added[i], impact |-> "low",
            description |-> <<"Added ", added[i], " option for target system compatibility">>]]
     \o [i \in 1..Len(removed) |->
           [type |-> "option_removed", option |-> removed[i], impact |-> "medium",
            description |-> <<"Removed ", removed[i], " option (not supported in target system)">>]]

identifyOptimizations(original, converted) ==
  (IF Truthy(converted.options, Key.bsize) /\ ~Truthy(original.options, Key.bsize)
   THEN << [type |-> "performance",
            description |-> "Added bsize optimization for better performance",
            benefit |-> "Reduces search space and improves matching speed"] >>
   ELSE <<>>)
  \o (IF Truthy(converted.options, Key.http_user_agent) /\ Truthy(original.options, Key.http_header)
      THEN << [type |-> "accuracy",
               description |-> "Converted generic http.header to specific http.user_agent",
               benefit |-> "More precise matching and reduced false positives"] >>
      ELSE <<>>)

identifyRisks(original, converted) ==
  (IF Truthy(original.options, Key.fast_pattern) /\ ~Truthy(converted.options, Key.fast_pattern)
   THEN << [type |-> "functionality", severity |-> "medium",
            description |-> "fast_pattern removed - may impact performance in high-traffic environments",
            mitigation |-> "Monitor rule performance and consider alternative optimizations"] >>
   ELSE <<>>)
  \o (IF Truthy(original.options, Key.urilen) /\ Truthy(converted.options, Key.urilen)
      THEN << [type |-> "behavioral", severity |-> "high",
               description |-> "urilen range interpretation differs between systems",
               mitigation |-> "Test rule behavior in target environment"] >>
      ELSE <<>>)

generateConversionRecommendations(original, converted) ==
  (IF Truthy(converted.options, Key.content) /\ Len(ObjGet(converted.options, Key.content)) > 50
   THEN << [type |-> "performance", priority |-> "medium",
            message |-> "Consider adding fast_pattern for long content strings",
            action |-> "Add fast_pattern to improve matching performance"] >>
   ELSE <<>>)
  \o (IF /\ ~Truthy(converted.options, Key.reference)
         /\ Truthy(original.options, Key.msg)
         /\ Includes(ToLowerCase(GetOrEmpty(original.options, Key.msg)), <<"m","a","l","w","a","r","e">>)
      THEN << [type |-> "best_practice", priority |-> "low",
               message |-> "Consider adding reference URL for malware rule",
               action |-> "Add reference:url,virustotal.com; for additional context"] >>
      ELSE <<>>)

analyzeConversion(originalRule, convertedRule) ==
  [changes |-> identifyChanges(originalRule, convertedRule),
   optimizations |-> identifyOptimizations(originalRule, convertedRule),
   risks |-> identifyRisks(originalRule, convertedRule),
   recommendations |-> generateConversionRecommendations(originalRule, convertedRule)]

(***************************************************************************)
(* Inputs: rule lines, batches of them, and option strings.                *)
(***************************************************************************)
\* the texts given to the operations: rule lines, then option strings
Sample ==
  [
    \* alert tcp any any -> any 25 (msg:"X"; sid:42;)
    RuleSid42 |->
      <<"a","l","e","r","t"," ","t","c","p"," ","a","n","y"," ","a","n","y"," ","-",">"," ","a","n","y"," ","2","5"," ","(","m","s","g",":","\"","X","\"",";"," ","s","i","d",":","4","2",";",")">>,
    \* drop udp any any -> any 53 (content:"a;b(c)"; sid:1;)
    RuleQuoted |->
      <<"d","r","o","p"," ","u","d","p"," ","a","n","y"," ","a","n","y"," ","-",">"," ","a","n","y"," ","5","3"," ","(","c","o","n","t","e","n","t",":","\"","a",";","b","(","c",")","\"",";"," ","s","i","d",":","1",";",")">>,
    \* log tcp any any -> any any ()   -- the rule shape, but no option to parse
    RuleNoOptions |->
      <<"l","o","g"," ","t","c","p"," ","a","n","y"," ","a","n","y"," ","-",">"," ","a","n","y"," ","a","n","y"," ","(",")">>,
    \* pass tcp any any any (sid:3;)   -- no direction: not the rule shape
    NotARule |->
      <<"p","a","s","s"," ","t","c","p"," ","a","n","y"," ","a","n","y"," ","a","n","y"," ","(","s","i","d",":","3",";",")">>,
    \* alert tcp $EXTERNAL_NET any -> $HOME_NET 80 (msg:"X"; content:"POST"; fast_pattern; sid:1000001; rev:3;)
    RuleExample |->
      <<"a","l","e","r","t"," ","t","c","p"," ","$","E","X","T","E","R","N","A","L","_","N","E","T"," ","a","n","y"," ","-",">"," ","$","H","O","M","E","_","N","E","T"," ","8","0"," ","(","m","s","g",":","\"","X","\"",";"," ","c","o","n","t","e","n","t",":","\"","P","O","S","T","\"",";"," ","f","a","s","t","_","p","a","t","t","e","r","n",";"," ","s","i","d",":","1","0","0","0","0","0","1",";"," ","r","e","v",":","3",";",")">>,
    \* alert tcp any any -> any 25 (pcre:"/a\"b;c/"; sid:7;)   -- an escaped quote, then a semicolon
    RuleEscaped |->
      <<"a","l","e","r","t"," ","t","c","p"," ","a","n","y"," ","a","n","y"," ","-",">"," ","a","n","y"," ","2","5"," ","(","p","c","r","e",":","\"","/","a","\\","\"","b",";","c","/","\"",";"," ","s","i","d",":","7",";",")">>,
    \* alert tcp any any -> any 25 (content:"A"; content:"B"; sid:9;)   -- the same key twice
    RuleRepeated |->
      <<"a","l","e","r","t"," ","t","c","p"," ","a","n","y"," ","a","n","y"," ","-",">"," ","a","n","y"," ","2","5"," ","(","c","o","n","t","e","n","t",":","\"","A","\"",";"," ","c","o","n","t","e","n","t",":","\"","B","\"",";"," ","s","i","d",":","9",";",")">>,
    \* alert http any any -> any any (http.request_body; tls.version:1; isdataat:!1,relative; sid:5;)
    RuleSuricata |->
      <<"a","l","e","r","t"," ","h","t","t","p"," ","a","n","y"," ","a","n","y"," ","-",">"," ","a","n","y"," ","a","n","y"," ","(","h","t","t","p",".","r","e","q","u","e","s","t","_","b","o","d","y",";"," ","t","l","s",".","v","e","r","s","i","o","n",":","1",";"," ","i","s","d","a","t","a","a","t",":","!","1",",","r","e","l","a","t","i","v","e",";"," ","s","i","d",":","5",";",")">>,
    \* reject tcp any any <> any 25 (msg:"a b"; isdataat:!0,relative; metadata:m; sid:1000000;)
    RuleSnort |->
      <<"r","e","j","e","c","t"," ","t","c","p"," ","a","n","y"," ","a","n","y"," ","<",">"," ","a","n","y"," ","2","5"," ","(","m","s","g",":","\"","a"," ","b","\"",";"," ","i","s","d","a","t","a","a","t",":","!","0",",","r","e","l","a","t","i","v","e",";"," ","m","e","t","a","d","a","t","a",":","m",";"," ","s","i","d",":","1","0","0","0","0","0","0",";",")">>,
    \* " sdrop ip any any -> any any (nocase; 10:x; 2; SID : 1000002) "   -- white space around the rule
    RulePadded |->
      <<" ","s","d","r","o","p"," ","i","p"," ","a","n","y"," ","a","n","y"," ","-",">"," ","a","n","y"," ","a","n","y"," ","(","n","o","c","a","s","e",";"," ","1","0",":","x",";"," ","2",";"," ","S","I","D"," ",":"," ","1","0","0","0","0","0","2",")"," ">>,
    \* drop http any any -> any any (sid:1;)
    RuleDropHttp |->
      <<"d","r","o","p"," ","h","t","t","p"," ","a","n","y"," ","a","n","y"," ","-",">"," ","a","n","y"," ","a","n","y"," ","(","s","i","d",":","1",";",")">>,
    \* # alert tcp any any -> any 25 (fast_pattern; sid:8;)
    CommentLine |->
      <<"#"," ","a","l","e","r","t"," ","t","c","p"," ","a","n","y"," ","a","n","y"," ","-",">"," ","a","n","y"," ","2","5"," ","(","f","a","s","t","_","p","a","t","t","e","r","n",";"," ","s","i","d",":","8",";",")">>,
    \* the empty line
    BlankLine |->
      <<>>,
    \* content:"a;b(c)"; sid:1;
    OptionsQuoted |->
      <<"c","o","n","t","e","n","t",":","\"","a",";","b","(","c",")","\"",";"," ","s","i","d",":","1",";">>,
    \* pcre:"/a\"b;c/"; sid:1;
    OptionsEscaped |->
      <<"p","c","r","e",":","\"","/","a","\\","\"","b",";","c","/","\"",";"," ","s","i","d",":","1",";">>,
    \* content:"A"; nocase; content:"B"
    OptionsRepeated |->
      <<"c","o","n","t","e","n","t",":","\"","A","\"",";"," ","n","o","c","a","s","e",";"," ","c","o","n","t","e","n","t",":","\"","B","\"">>,
    \* msg:'x;y'; flow:a,b;; rev: 2 
    OptionsSingleQuote |->
      <<"m","s","g",":","'","x",";","y","'",";"," ","f","l","o","w",":","a",",","b",";",";"," ","r","e","v",":"," ","2"," ">>
  ]

\* the parts of the rule lines built for the conversions: protocol tokens,
\* destination ports, and option texts
Part ==
  [ protocols |-> { <<"t","c","p">>, <<"u","d","p">>, <<"i","p">>, <<"h","t","t","p">>, <<"H","T","T","P">>, <<"d","n","s">>, <<"t","l","s">>, <<"S","m","t","p">>, <<"f","t","p">>, <<"h","t","t","p","s">> },
    transports |-> { <<"t","c","p">>, <<"T","C","P">>, <<"u","d","p">>, <<"i","p">> },
    destinations |-> { <<"a","n","y">>, <<"8","0">>, <<"4","4","3">>, <<"5","3">>, <<"5","3","5","3">>, <<"1","0","8","0">> },
    sids |-> { <<"0">>, <<"1">>, <<"0","0","7">>, <<"-","5">>, <<"9","9","9","9","9","9">>, <<"1","0","0","0","0","0","0">>, <<"1","0","0","0","0","0","1">>, <<"1","9","9","9","9","9","9">>, <<"2","0","0","0","0","0","1">> },
    heuristic |-> {
                 \* sid:1;
                 <<"s","i","d",":","1",";">>,
                 \* msg:"SSL web"; sid:1;
                 <<"m","s","g",":","\"","S","S","L"," ","w","e","b","\"",";"," ","s","i","d",":","1",";">>,
                 \* content:"a.com"; sid:1;
                 <<"c","o","n","t","e","n","t",":","\"","a",".","c","o","m","\"",";"," ","s","i","d",":","1",";">> },
    dialect |-> {
               \* fast_pattern; sid:1;
               <<"f","a","s","t","_","p","a","t","t","e","r","n",";"," ","s","i","d",":","1",";">>,
               \* openappid:ftp; sid:1;
               <<"o","p","e","n","a","p","p","i","d",":","f","t","p",";"," ","s","i","d",":","1",";">>,
               \* appid:ftp; fast_pattern; sid:1;
               <<"a","p","p","i","d",":","f","t","p",";"," ","f","a","s","t","_","p","a","t","t","e","r","n",";"," ","s","i","d",":","1",";">>,
               \* http.content; sid:1;
               <<"h","t","t","p",".","c","o","n","t","e","n","t",";"," ","s","i","d",":","1",";">>,
               \* http.request_body; sid:1;
               <<"h","t","t","p",".","r","e","q","u","e","s","t","_","b","o","d","y",";"," ","s","i","d",":","1",";">>,
               \* dns.query; content:"a"; sid:1;
               <<"d","n","s",".","q","u","e","r","y",";"," ","c","o","n","t","e","n","t",":","\"","a","\"",";"," ","s","i","d",":","1",";">>,
               \* tls.subject:x; tls.issuerdn:y; sid:1;
               <<"t","l","s",".","s","u","b","j","e","c","t",":","x",";"," ","t","l","s",".","i","s","s","u","e","r","d","n",":","y",";"," ","s","i","d",":","1",";">>,
               \* http_request_body; dns_query; tls_version:1; sid:1;
               <<"h","t","t","p","_","r","e","q","u","e","s","t","_","b","o","d","y",";"," ","d","n","s","_","q","u","e","r","y",";"," ","t","l","s","_","v","e","r","s","i","o","n",":","1",";"," ","s","i","d",":","1",";">>,
               \* http_content; sid:1;
               <<"h","t","t","p","_","c","o","n","t","e","n","t",";"," ","s","i","d",":","1",";">> },
    isdataat |-> {
                \* isdataat:!0,relative; sid:1000001;
                <<"i","s","d","a","t","a","a","t",":","!","0",",","r","e","l","a","t","i","v","e",";"," ","s","i","d",":","1","0","0","0","0","0","1",";">>,
                \* isdataat:!1,relative; sid:1000001;
                <<"i","s","d","a","t","a","a","t",":","!","1",",","r","e","l","a","t","i","v","e",";"," ","s","i","d",":","1","0","0","0","0","0","1",";">>,
                \* isdataat:5,relative; sid:1000001;
                <<"i","s","d","a","t","a","a","t",":","5",",","r","e","l","a","t","i","v","e",";"," ","s","i","d",":","1","0","0","0","0","0","1",";">>,
                \* isdataat:!1,relative,!0,relative; sid:1000001;
                <<"i","s","d","a","t","a","a","t",":","!","1",",","r","e","l","a","t","i","v","e",",","!","0",",","r","e","l","a","t","i","v","e",";"," ","s","i","d",":","1","0","0","0","0","0","1",";">> },
    \* content:"aa...a"; sid:1000001;   -- a payload of 50 and of 51 characters
    content |-> { <<"c","o","n","t","e","n","t",":","\"">> \o [k \in 1..n |-> "a"] \o <<"\"",";"," ","s","i","d",":","1","0","0","0","0","0","1",";">> : n \in { 50, 51 } },
    \* content:"aa...a"; fast_pattern; sid:1000001;   -- 51 characters
    pattern |-> { <<"c","o","n","t","e","n","t",":","\"">> \o [k \in 1..51 |-> "a"] \o <<"\"",";"," ","f","a","s","t","_","p","a","t","t","e","r","n",";"," ","s","i","d",":","1","0","0","0","0","0","1",";">> } ]

\* the rule line `alert <protocol> any any -> any <destination> (<options>)`
RuleWith(protocol, destination, options) ==
  <<"a","l","e","r","t"," ">> \o protocol \o <<" ","a","n","y"," ","a","n","y"," ","-",">"," ","a","n","y"," ">>
    \o destination \o <<" ","(">> \o options \o <<")">>

\* a comment, a blank line and a rule: what a rule file looks like
RuleFile ==
  Sample.CommentLine \o <<"\n">> \o Sample.BlankLine \o <<"\n">> \o Sample.RuleSid42 \o <<"\r", "\n">>

MaxLines == 3

MaxChain == 2

MaxEntries == 2

BatchLines == <<Sample.RuleSid42, Sample.RuleNoOptions, Sample.NotARule>>

Batches == UNION { [1..n -> 1..Len(BatchLines)] : n \in 1..MaxLines }

BatchText(b) == Join([i \in 1..Len(b) |-> BatchLines[b[i]]], <<"\n">>)

Inputs ==
  { BatchText(b) : b \in Batches }
    \cup { Sample.RuleQuoted, Sample.RuleExample, Sample.RuleEscaped, Sample.RuleRepeated, Sample.RuleSuricata, Sample.RuleSnort, Sample.RulePadded,
           Sample.RuleDropHttp, Sample.CommentLine, Sample.BlankLine, RuleFile }
    \cup { Sample.OptionsQuoted, Sample.OptionsEscaped, Sample.OptionsRepeated, Sample.OptionsSingleQuote }
    \cup { RuleWith(p, <<"a","n","y">>, <<"s","i","d",":","1",";">>) : p \in Part.protocols }
    \cup { RuleWith(<<"i","p">>, <<"a","n","y">>, <<"s","i","d",":">> \o sid \o <<";">>) : sid \in Part.sids }
    \cup { RuleWith(p, d, <<"s","i","d",":","1",";">>) : p \in Part.transports, d \in Part.destinations }
    \cup { RuleWith(p, <<"a","n","y">>, o) : p \in Part.transports, o \in Part.heuristic }
    \cup { RuleWith(<<"t","c","p">>, <<"2","5">>, o) : o \in Part.dialect }
    \cup { RuleWith(<<"i","p">>, <<"a","n","y">>, o) : o \in Part.isdataat \cup Part.content \cup Part.pattern }

(***************************************************************************)
(* The state machine: one converter and one parser working on a text.      *)
(***************************************************************************)
Conversions == { "convertToSnort", "convertToSuricata" }

\* the constructor of SIEMRuleConverter; nothing has been called yet
Init ==
  /\ input \in Inputs
  /\ op = "none"
  /\ arg = <<>>
  /\ result = <<>>
  /\ conversionLog = <<>>
  /\ parsedRules = <<>>
  /\ raised = NoRaise
  /\ chain = <<>>

\* a call is given the input at first, then the text that the previous
\* call returned, if it ran to its end without an exception
CanCall ==
  /\ Len(chain) < MaxChain
  /\ chain = <<>> \/ (op \in Conversions \cup { "formatRule" } /\ raised = NoRaise)

Text == IF chain = <<>> THEN input ELSE result

\* the lines of the text a conversion returned: convertedRules.join('\n')
OutputLines(text) == IF text = <<>> THEN <<>> ELSE Split(text, "\n")

\* the exceptions a run may meet: none, or (in the first run on a text) the
\* single-rule conversion of one rule raises before its first log entry or
\* right after any of them
Raises(singles) ==
  { NoRaise } \cup
  { r \in [rule : 1..Len(singles), at : 0..MaxEntries] :
      chain = <<>> /\ r.at <= Len(singles[r.rule].log) }

Ran(name, text, run, raise) ==
  /\ op' = name
  /\ arg' = text
  /\ result' = run.result
  /\ conversionLog' = clearLog(conversionLog) \o run.log
  /\ parsedRules' = run.rules
  /\ raised' = raise
  /\ chain' = Append(chain, name)
  /\ UNCHANGED input

ConvertToSnort ==
  /\ CanCall
  /\ \E singles \in { convertEachToSnort(parseRules(Text)) } :
     \E raise \in Raises(singles) :
       Ran("convertToSnort", Text, convertToSnortRun(singles, raise), raise)

ConvertToSuricata ==
  /\ CanCall
  /\ \E singles \in { convertEachToSuricata(parseRules(Text)) } :
     \E raise \in Raises(singles) :
       Ran("convertToSuricata", Text, convertToSuricataRun(singles, raise), raise)

\* the parser's operations leave the converter's log alone
Parsed(name, text, value) ==
  /\ op' = name
  /\ arg' = text
  /\ result' = value
  /\ raised' = NoRaise
  /\ chain' = Append(chain, name)
  /\ UNCHANGED <<input, conversionLog>>

DetectRuleType ==
  /\ CanCall
  /\ Parsed("detectRuleType", Text, detectRuleType(Text))
  /\ UNCHANGED parsedRules

ParseRules ==
  /\ CanCall
  /\ Parsed("parseRules", Text, <<>>)
  /\ parsedRules' = parseRules(Text)

\* formatRule on each rule that parseRules returned
FormatRules ==
  /\ op = "parseRules"
  /\ Len(chain) < MaxChain
  /\ Parsed("formatRule", arg,
            Join([i \in 1..Len(parsedRules) |-> formatRule(parsedRules[i])], <<"\n">>))
  /\ UNCHANGED parsedRules

ParseOptions ==
  /\ chain = <<>>
  /\ Parsed("parseOptions", input, parseOptions(input))
  /\ UNCHANGED parsedRules

\* analyzeConversion on a rule that a conversion worked on, as parseRules
\* made it, and on the rule to compare it with: the rule of the line that the
\* conversion returned for it, or the same rule object again. parsedRules
\* holds the two rule objects as the call leaves them.
AnalyzeConversion ==
  /\ op \in Conversions
  /\ raised = NoRaise
  /\ Len(chain) < MaxChain
  /\ \E i \in 1..Len(parsedRules) :
     \E original \in { parsedRules[i] } :
     \E converted \in { original, parseRule(OutputLines(result)[i]) } :
       /\ Parsed("analyzeConversion", arg, analyzeConversion(original, converted))
       /\ parsedRules' = <<original, converted>>

Next ==
  \/ ConvertToSnort
  \/ ConvertToSuricata
  \/ DetectRuleType
  \/ ParseRules
  \/ FormatRules
  \/ ParseOptions
  \/ AnalyzeConversion

Spec == Init /\ [][Next]_vars

(***************************************************************************)
(* What the properties below read off a state.                             *)
(***************************************************************************)
\* the options of line i of the text a conversion returned
OptionsOut(i) == parseRule(OutputLines(result)[i]).options

\* the lines of a text that the filter of parseRules keeps
ValidLines(text) == SelectSeq(Split(text, "\n"), isValidRule)

\* the conversion called name, on a text
RunOf(name, text, raise) ==
  IF name = "convertToSnort" THEN convertToSnort(text, raise) ELSE convertToSuricata(text, raise)

\* the places of the log entries of a severity
EntriesOf(log, type) == { k \in 1..Len(log) : log[k].type = type }

(***************************************************************************)
(* Batch conversion                                                        *)
(***************************************************************************)
\* C1: for a batch of three lines whose second is malformed, a conversion
\* returns three lines, logs at least one entry of severity error, and the
\* first and third lines are the conversions of the first and third rules.
\* A line is malformed when it has not the rule shape, or has it and
\* parseRule finds no direction and options in it.
C1_MalformedSecondIsolated ==
  LET lines == Split(arg, "\n")
      out == OutputLines(result)
      Malformed(line) == ~isValidRule(line) \/ parseRule(line).direction = <<>>
  IN (/\ op \in Conversions
      /\ Len(chain) = 1
      /\ raised = NoRaise
      /\ Len(lines) = 3
      /\ ~Malformed(lines[1])
      /\ Malformed(lines[2])
      /\ ~Malformed(lines[3]))
     => /\ Len(out) = 3
        /\ EntriesOf(conversionLog, "error") # {}
        /\ out[1] = RunOf(op, lines[1], NoRaise).result
        /\ out[3] = RunOf(op, lines[3], NoRaise).result

\* C2: when the single-rule conversion of rule i raises, the run still ends
\* with its closing entry; the log holds exactly one error entry, which
\* carries the exception's message, and a success entry for every other
\* rule but none for rule i; line i of the output is formatRule of the
\* rule as parsed; and every later rule is converted.
C2_RaiseIsCaught ==
  LET valid == ValidLines(arg)
      n == Len(valid)
      i == raised.rule
      out == OutputLines(result)
      errors == EntriesOf(conversionLog, "error")
      successes == EntriesOf(conversionLog, "success")
  IN (op \in Conversions /\ i > 0)
     => /\ conversionLog[Len(conversionLog)].message[1] = "Conversion complete. "
        /\ Cardinality(errors) = 1
        /\ \A e \in errors :
             /\ conversionLog[e].message = <<"Error converting rule: ", raisedMessage>>
             /\ Cardinality({ k \in successes : k < e }) = i - 1
             /\ Cardinality({ k \in successes : k > e }) = n - i
        /\ Len(out) = n
        /\ out[i] = formatRule(parseRule(valid[i]))
        /\ \A j \in (i + 1)..n : out[j] = RunOf(op, valid[j], NoRaise).result

\* three rules were given, the conversion of the first raised after it had
\* logged an entry, and the run went on
C2_Witness ==
  /\ op \in Conversions
  /\ raised = [rule |-> 1, at |-> 1]
  /\ Len(parsedRules) = 3
  /\ Len(OutputLines(result)) = 3

\* C3: a conversion returns one line per line that isValidRule accepts, in
\* the order of the input: line i of the output is what the conversion
\* returns on the i-th accepted line alone. The lines that isValidRule
\* rejects add no line and no log entry: the text returned and the log are
\* those of the accepted lines alone.
C3_OneLinePerValidRule ==
  LET valid == ValidLines(arg)
      out == OutputLines(result)
      alone == RunOf(op, Join(valid, <<"\n">>), raised)
      \* the exception of the whole run, as a run on rule i alone sees it
      RaiseOn(i) == IF raised.rule = i THEN [rule |-> 1, at |-> raised.at] ELSE NoRaise
  IN op \in Conversions
     => /\ Len(out) = Len(valid)
        /\ \A i \in 1..Len(valid) : out[i] = RunOf(op, valid[i], RaiseOn(i)).result
        /\ alone.result = result
        /\ alone.log = conversionLog

\* a rule, a line that is not a rule, and a rule: two lines come out
C3_Witness ==
  /\ op \in Conversions
  /\ raised = NoRaise
  /\ arg = BatchText(<<1, 3, 2>>)
  /\ Len(OutputLines(result)) = 2

\* C11: at the end of each conversion call the log holds the entries of that
\* call alone, from its 'Starting conversion' entry on, whatever was called
\* before; and entries are only appended: the log of the call, less its
\* closing entry, starts with the log of the same call on the first k of
\* its rules, less its closing entry, for every k below their number.
C11_OneLogPerRun ==
  LET valid == ValidLines(arg)
      upTo(k) == RunOf(op, Join(SubSeq(valid, 1, k), <<"\n">>),
                       IF raised.rule <= k THEN raised ELSE NoRaise).log
  IN op \in Conversions
     => /\ conversionLog = RunOf(op, arg, raised).log
        /\ conversionLog[1] =
             Entry(<<IF op = "convertToSnort" THEN "Starting conversion to Snort format..."
                     ELSE "Starting conversion to Suricata format...">>, "info")
        /\ \A k \in 1..Len(conversionLog) :
             (k > 1) => conversionLog[k].message[1] \notin
                          { "Starting conversion to Snort format...",
                            "Starting conversion to Suricata format..." }
        /\ \A k \in 0..(Len(valid) - 1) :
             \E first \in { upTo(k) } :
               SubSeq(first, 1, Len(first) - 1) = SubSeq(conversionLog, 1, Len(first) - 1)

\* a second conversion was called on the same converter, after a first one
\* that had logged, and its log starts with its own first entry
C11_Witness ==
  /\ chain = <<"convertToSuricata", "convertToSnort">>
  /\ parsedRules # <<>>
  /\ conversionLog[1].message = <<"Starting conversion to Snort format...">>
  /\ Len(conversionLog) >= 3

(***************************************************************************)
(* SID renumbering                                                         *)
(***************************************************************************)
\* the sid of the first rule of a text, empty when there is none
SidOf(text) ==
  IF parseRules(text) = <<>> THEN <<>> ELSE GetOrEmpty(parseRules(text)[1].options, Key.sid)

\* C4 as the specification states it: a rule with sid 42 converted to
\* Suricata and that result converted to Snort has sid 42 again.
C4_SidRoundTripAsStated ==
  (input = Sample.RuleSid42 /\ chain = <<"convertToSuricata", "convertToSnort">>)
    => SidOf(result) = <<"4","2">>

\* C4: a rule with sid 42 converted to Snort has sid 1000042, and that
\* result converted to Suricata has sid 42 again; converted to Suricata the
\* rule keeps sid 42, and that result converted to Snort has sid 1000042.
C4_SidRoundTrip ==
  (input = Sample.RuleSid42 /\ raised = NoRaise)
    => /\ chain = <<"convertToSnort">> => SidOf(result) = <<"1","0","0","0","0","4","2">>
       /\ chain = <<"convertToSnort", "convertToSuricata">> => SidOf(result) = <<"4","2">>
       /\ chain = <<"convertToSuricata">> => SidOf(result) = <<"4","2">>
       /\ chain = <<"convertToSuricata", "convertToSnort">> => SidOf(result) = <<"1","0","0","0","0","4","2">>

\* the rule with sid 42 went to Snort and back to Suricata, and has sid 42
C4_Witness ==
  /\ input = Sample.RuleSid42
  /\ chain = <<"convertToSnort", "convertToSuricata">>
  /\ arg = <<"a","l","e","r","t"," ","t","c","p"," ","a","n","y"," ","a","n","y"," ","-",">"," ","a","n","y"," ","2","5"," ","(","m","s","g",":","X",";"," ","s","i","d",":","1","0","0","0","0","4","2",";",")">>
  /\ SidOf(result) = <<"4","2">>

C14_SidInvolution ==
  LET s == ParseInt(SidOf(input))
  IN (/\ chain = <<"convertToSnort", "convertToSuricata">>
      /\ raised = NoRaise
      /\ s # NaN
      /\ s[1] >= 0
      /\ s[1] < 1000000)
     => ParseInt(SidOf(result)) = s

(***************************************************************************)
(* Option splitting                                                        *)
(***************************************************************************)
\* C5: a semicolon or a parenthesis inside a quoted payload makes no option:
\* content:"a;b(c)"; sid:1; parses to exactly content = a;b(c) and sid = 1,
\* alone and as the options of a rule, and no string without single quotes
\* has more options than one per semicolon outside double quotes, and one.
C5_QuotedSemicolonKept ==
  LET \* the semicolons of s with an even number of double quotes before them
      SemicolonsOutsideQuotes(s) ==
        { q \in 1..Len(s) :
            /\ s[q] = ";"
            /\ Cardinality({ x \in 1..(q - 1) : s[x] = "\"" }) % 2 = 0 }
  IN
  /\ (op = "parseOptions" /\ arg = Sample.OptionsQuoted)
       => result = << <<Key.content, <<"a",";","b","(","c",")">>>>, <<Key.sid, <<"1">>>> >>
  /\ (op = "parseRules" /\ arg = Sample.RuleQuoted)
       => /\ Len(parsedRules) = 1
          /\ parsedRules[1].options = << <<Key.content, <<"a",";","b","(","c",")">>>>, <<Key.sid, <<"1">>>> >>
  /\ (op = "parseOptions" /\ ~Includes(arg, <<"'">>))
       => Len(result) <= Cardinality(SemicolonsOutsideQuotes(arg)) + 1

\* content:"a;b(c)"; sid:1; was parsed, and gave two options
C5_Witness ==
  /\ op = "parseOptions"
  /\ arg = Sample.OptionsQuoted
  /\ Len(result) = 2
  /\ Cardinality({ q \in 1..Len(arg) : arg[q] = ";" }) = 3

\* C6: an escaped quote does not end the quoted payload: the semicolon that
\* follows it in pcre:"/a\"b;c/"; sid:1; is no option boundary, and the
\* payload stays one option.
C6_EscapedQuoteKept ==
  (op = "parseOptions" /\ arg = Sample.OptionsEscaped)
    => /\ Len(splitOptions(arg)) = 2
       /\ result = << <<Key.pcre, <<"/","a","\\","\"","b",";","c","/">>>>, <<Key.sid, <<"1">>>> >>

(***************************************************************************)
(* Parsing and formatting                                                  *)
(***************************************************************************)
\* C7: formatting a parsed rule whose options have no duplicate keys, and
\* parsing the formatted text, gives the same action, protocol, source,
\* direction, destination and set of options.
C7_RoundTrip ==
  LET valid == ValidLines(arg)
      again == parseRules(result)
      \* the options string of a rule line, <<>> when it has none to parse
      OptionsOf(line) ==
        IF headerMatch(line) = <<>> THEN <<>>
        ELSE IF directionMatch(headerMatch(line)[3]) = <<>> THEN <<>>
        ELSE directionMatch(headerMatch(line)[3])[4]
      \* no key occurs twice in the options of the line
      DistinctKeys(line) ==
        Len(splitOptions(OptionsOf(line))) = Len(parseOptions(OptionsOf(line)))
      \* the same header, direction and set of options
      SameRule(a, b) ==
        /\ a.action = b.action
        /\ a.protocol = b.protocol
        /\ a.source = b.source
        /\ a.direction = b.direction
        /\ a.destination = b.destination
        /\ Range(a.options) = Range(b.options)
  IN (op = "formatRule" /\ \A i \in 1..Len(valid) : DistinctKeys(valid[i]))
     => /\ Len(again) = Len(parsedRules)
        /\ \A i \in 1..Len(parsedRules) : SameRule(again[i], parsedRules[i])

\* C9: every occurrence of a repeated key is held, in input order, and is
\* emitted by formatRule: an options string gives as many options as it has
\* parts, and the rule with content:"A"; content:"B" holds and formats both.
C9_RepeatedKeysKept ==
  /\ op = "parseOptions" => Len(result) = Len(splitOptions(arg))
  /\ (op = "parseRules" /\ arg = Sample.RuleRepeated)
       => SelectSeq(parsedRules[1].options, LAMBDA e : e[1] = Key.content)
            = << <<Key.content, <<"A">>>>, <<Key.content, <<"B">>>> >>
  /\ (op = "formatRule" /\ arg = Sample.RuleRepeated)
       => /\ Includes(result, <<"c","o","n","t","e","n","t",":","A">>)
          /\ Includes(result, <<"c","o","n","t","e","n","t",":","B">>)

\* C12: a line that isValidRule accepts and in which parseRule finds no
\* header, or no direction and options, is a parse failure: parseRule does
\* not return a Rule for it, and parseRules returns the rules of the other
\* accepted lines only.
C12_ParseFailureSkipped ==
  LET valid == ValidLines(arg)
      Decomposed(line) ==
        /\ headerMatch(line) # <<>>
        /\ directionMatch(headerMatch(line)[3]) # <<>>
      IsRule(r) ==
        DOMAIN r = { "action", "protocol", "source", "destination", "direction",
                     "options", "raw" }
  IN op = "parseRules"
     => /\ \A i \in 1..Len(valid) : ~Decomposed(valid[i]) => ~IsRule(parseRule(valid[i]))
        /\ parsedRules = parseEach(SelectSeq(valid, Decomposed))

\* C27: every rule that parseRules returns, so parseRule of every line that
\* isValidRule accepts, given as it stands in the text, has an action, a
\* protocol, a source, a direction and a destination that are not empty.
C27_ValidImpliesComplete ==
  op = "parseRules"
    => /\ Len(parsedRules) = Len(ValidLines(arg))
       /\ \A i \in 1..Len(parsedRules) :
            /\ parsedRules[i].action # <<>>
            /\ parsedRules[i].protocol # <<>>
            /\ parsedRules[i].source # <<>>
            /\ parsedRules[i].direction # <<>>
            /\ parsedRules[i].destination # <<>>

(***************************************************************************)
(* Options renamed and dropped by the conversions                          *)
(***************************************************************************)
\* C15: a rule that has the flag http.request_body is output by
\* convertToSnort with http.content and without http.request_body; a rule
\* that has http.content is output by convertToSuricata with
\* http.request_body and without http.content.
C15_RequestBodyRenamed ==
  (op \in Conversions /\ raised = NoRaise)
    => \A i \in 1..Len(parsedRules) :
         /\ (op = "convertToSnort" /\ ObjHas(parsedRules[i].options, Key.dot_http_request_body))
              => /\ ObjHas(OptionsOut(i), Key.dot_http_content)
                 /\ ~ObjHas(OptionsOut(i), Key.dot_http_request_body)
         /\ (op = "convertToSuricata" /\ ObjHas(parsedRules[i].options, Key.dot_http_content))
              => /\ ObjHas(OptionsOut(i), Key.dot_http_request_body)
                 /\ ~ObjHas(OptionsOut(i), Key.dot_http_content)

\* C16: a rule that has one of tls.cert_subject, tls.fingerprint,
\* tls.version, tls.subject, tls.issuerdn is output by convertToSnort with
\* none of them, and the log has the warning entry of the drop.
C16_TlsOptionsDropped ==
  LET tlsOptions == { <<"t","l","s",".","c","e","r","t","_","s","u","b","j","e","c","t">>,
                      <<"t","l","s",".","f","i","n","g","e","r","p","r","i","n","t">>,
                      <<"t","l","s",".","v","e","r","s","i","o","n">>,
                      <<"t","l","s",".","s","u","b","j","e","c","t">>,
                      <<"t","l","s",".","i","s","s","u","e","r","d","n">> }
  IN (op = "convertToSnort" /\ raised = NoRaise)
     => \A i \in 1..Len(parsedRules) :
          (\E k \in tlsOptions : ObjHas(parsedRules[i].options, k))
            => /\ \A k \in tlsOptions : ~ObjHas(OptionsOut(i), k)
               /\ \E e \in EntriesOf(conversionLog, "warning") :
                    conversionLog[e].message
                      = <<"Converting Suricata TLS options to content matching">>

\* C17: a rule that has dns.query is output by convertToSnort without it,
\* and the log has the warning entry of the drop.
C17_DnsQueryDropped ==
  LET dnsQuery == <<"d","n","s",".","q","u","e","r","y">>
  IN (op = "convertToSnort" /\ raised = NoRaise)
     => \A i \in 1..Len(parsedRules) :
          ObjHas(parsedRules[i].options, dnsQuery)
            => /\ ~ObjHas(OptionsOut(i), dnsQuery)
               /\ \E e \in EntriesOf(conversionLog, "warning") :
                    conversionLog[e].message = <<"Converting dns.query to content matching">>

\* C20: a rule that has fast_pattern, openappid or appid is output by
\* convertToSuricata with none of them, and every log entry of such a
\* removal has severity info.
C20_SnortNativeDropped ==
  LET native == { Key.fast_pattern, Key.openappid, Key.appid }
      removals == { <<"Removing fast_pattern (not needed in Suricata)">>,
                    <<"Converting OpenAppID to protocol detection">> }
  IN (op = "convertToSuricata" /\ raised = NoRaise)
     => /\ \A i \in 1..Len(parsedRules) :
             \A k \in native : ~ObjHas(OptionsOut(i), k)
        /\ \A e \in 1..Len(conversionLog) :
             conversionLog[e].message \in removals => conversionLog[e].type = "info"

(***************************************************************************)
(* The protocol token                                                      *)
(***************************************************************************)
\* C18: convertSingleRuleToSnort outputs tcp for the protocols http, tls,
\* smtp and ftp and udp for dns, in any letter case, and logs exactly one
\* entry for the rewrite, of severity warning; any other protocol is output
\* as it is and no entry for a rewrite is logged.
C18_ProtocolDemoted ==
  LET tcp == <<"t","c","p">>
      udp == <<"u","d","p">>
      toTcp == { <<"h","t","t","p">>, <<"t","l","s">>, <<"s","m","t","p">>, <<"f","t","p">> }
      toUdp == { <<"d","n","s">> }
      lower(i) == ToLowerCase(parsedRules[i].protocol)
      IsRewrite(e) ==
        \/ e.message \in { <<"Converting HTTP protocol to TCP for Snort">>,
                            <<"Converting DNS protocol to UDP for Snort">> }
        \/ (Len(e.message) = 3 /\ e.message[3] = " protocol to TCP for Snort")
      rewrites(i) == SelectSeq(convertSingleRuleToSnort(parsedRules[i]).log, IsRewrite)
  IN (op = "convertToSnort" /\ raised = NoRaise)
     => \A i \in 1..Len(parsedRules) :
          /\ parseRule(OutputLines(result)[i]).protocol
               = IF lower(i) \in toTcp THEN tcp
                 ELSE IF lower(i) \in toUdp THEN udp
                 ELSE parsedRules[i].protocol
          /\ \E logged \in { rewrites(i) } :
               /\ Len(logged) = IF lower(i) \in toTcp \cup toUdp THEN 1 ELSE 0
               /\ \A k \in 1..Len(logged) : logged[k].type = "warning"

\* a rule with the protocol HTTP was converted to Snort and is a tcp rule
C18_Witness ==
  /\ op = "convertToSnort"
  /\ raised = NoRaise
  /\ arg = RuleWith(<<"H","T","T","P">>, <<"a","n","y">>, <<"s","i","d",":","1",";">>)
  /\ parseRule(result).protocol = <<"t","c","p">>
  /\ \E e \in EntriesOf(conversionLog, "warning") :
       conversionLog[e].message = <<"Converting HTTP protocol to TCP for Snort">>

\* C19: convertSingleRuleToSuricata outputs http for a tcp rule on which
\* isWebTraffic holds, tls for a tcp rule on which isWebTraffic does not
\* hold and isTLSTraffic does, dns for a udp rule on which isDNSTraffic
\* holds, and otherwise the protocol of the rule.
C19_ProtocolPromoted ==
  LET lower(i) == ToLowerCase(parsedRules[i].protocol)
  IN (op = "convertToSuricata" /\ raised = NoRaise)
     => \A i \in 1..Len(parsedRules) :
          parseRule(OutputLines(result)[i]).protocol
            = IF lower(i) = <<"t","c","p">> /\ isWebTraffic(parsedRules[i]) THEN <<"h","t","t","p">>
              ELSE IF lower(i) = <<"t","c","p">> /\ isTLSTraffic(parsedRules[i]) THEN <<"t","l","s">>
              ELSE IF lower(i) = <<"u","d","p">> /\ isDNSTraffic(parsedRules[i]) THEN <<"d","n","s">>
              ELSE parsedRules[i].protocol

\* C26: on a rule with neither content nor msg that convertToSuricata works
\* on, isDNSTraffic holds exactly when the port of the destination is 53 and
\* isWebTraffic exactly when it is 80, 8080 or 443.
C26_DestinationPort ==
  LET port(rule) == SubSeq(rule.destination, RunStart(rule.destination, Len(rule.destination), "digit"),
                           Len(rule.destination))
  IN op = "convertToSuricata"
     => \A i \in 1..Len(parsedRules) :
          \E rule \in { parsedRules[i] } :
          (/\ rule.direction # <<>>
           /\ ~ObjHas(rule.options, Key.content)
           /\ ~ObjHas(rule.options, Key.msg))
            => /\ isDNSTraffic(rule) <=> port(rule) = <<"5","3">>
               /\ isWebTraffic(rule) <=> port(rule) \in { <<"8","0">>, <<"8","0","8","0">>, <<"4","4","3">> }

(***************************************************************************)
(* A conversion applied twice, and the order of the log                    *)
(***************************************************************************)
\* C29: convertToSnort on the text that convertToSnort returned for a text
\* with a valid rule returns that text again, and so does convertToSuricata
\* on the text that convertToSuricata returned.
C29_ConversionIdempotent ==
  (/\ chain \in { <<"convertToSnort", "convertToSnort">>, <<"convertToSuricata", "convertToSuricata">> }
   /\ raised = NoRaise
   /\ ValidLines(input) # <<>>)
    => result = arg

\* C30: the log of a conversion starts with the entry that the conversion
\* starts and ends with the entry that it is complete, which counts the
\* lines of the output; between them it holds, for each rule in input order,
\* the entries of the transformations of that rule (all of them, or those
\* logged before its conversion raised) and then one entry of severity
\* success or error for it, and nothing else.
C30_LogNarrativeOrder ==
  LET log == conversionLog
      terminals == { k \in 1..Len(log) : log[k].type \in { "success", "error" } }
      \* the place of the terminal entry of rule i, and of the rule before it
      terminal(i) == IF i = 0 THEN 1
                     ELSE CHOOSE k \in terminals : Cardinality({ j \in terminals : j <= k }) = i
      single(i) == IF op = "convertToSnort" THEN convertSingleRuleToSnort(parsedRules[i]).log
                   ELSE convertSingleRuleToSuricata(parsedRules[i]).log
  IN op \in Conversions
     => /\ Len(log) >= 2
        /\ log[1] = Entry(<<IF op = "convertToSnort" THEN "Starting conversion to Snort format..."
                            ELSE "Starting conversion to Suricata format...">>, "info")
        /\ log[Len(log)] = Entry(<<"Conversion complete. ", NumberToString(Len(OutputLines(result))),
                                   " rules processed.">>, "info")
        /\ Cardinality(terminals) = Len(parsedRules)
        /\ Len(OutputLines(result)) = Len(parsedRules)
        /\ terminal(Len(parsedRules)) = Len(log) - 1
        /\ \A i \in 1..Len(parsedRules) :
             \E from \in { terminal(i - 1) + 1 } :
             \E to \in { terminal(i) } :
             \E logged \in { single(i) } :
               /\ log[to].type = IF raised.rule = i THEN "error" ELSE "success"
               /\ SubSeq(log, from, to - 1)
                    = IF raised.rule = i THEN SubSeq(logged, 1, raised.at) ELSE logged

\* two rules were converted, the conversion of the first raised after it had
\* logged an entry, and the second was converted
C30_Witness ==
  /\ op = "convertToSnort"
  /\ Len(parsedRules) = 2
  /\ raised = [rule |-> 1, at |-> 1]
  /\ Len(conversionLog) >= 6
  /\ conversionLog[2].type = "warning"
  /\ conversionLog[3].type = "error"
  /\ conversionLog[Len(conversionLog) - 1].type = "success"

C22_MetadataMarker ==
  LET marker == <<"c","o","n","v","e","r","t","e","d","_","f","r","o","m","_","s","n","o","r","t">>
      infos(rule) == Cardinality(EntriesOf(convertSingleRuleToSuricata(rule).log, "info"))
      withMetadata(rule) == [rule EXCEPT !.options = ObjSet(@, Key.metadata, <<"m">>)]
  IN (op \in Conversions /\ raised = NoRaise)
     => \A i \in 1..Len(parsedRules) :
          \E rule \in { parsedRules[i] } :
          (rule.direction # <<>> /\ parseRule(formatRule(rule)).options = rule.options)
            => /\ (op = "convertToSuricata" /\ ~ObjHas(rule.options, Key.metadata))
                    => /\ GetOrEmpty(OptionsOut(i), Key.metadata) = marker
                       /\ infos(rule) = infos(withMetadata(rule)) + 1
               /\ (op = "convertToSnort" \/ ObjHas(rule.options, Key.metadata))
                    => /\ ObjHas(OptionsOut(i), Key.metadata) <=> ObjHas(rule.options, Key.metadata)
                       /\ GetOrEmpty(OptionsOut(i), Key.metadata) = GetOrEmpty(rule.options, Key.metadata)

(***************************************************************************)
(* The analysis of a conversion                                            *)
(***************************************************************************)
\* C23: the changes of analyzeConversion(original, converted) are one
\* protocol record exactly when the protocols differ, one option_added
\* record for each option key of converted that original lacks, one
\* option_removed record for each key of original that converted lacks, and
\* no other record, so none for a key that both have; a rule compared with
\* itself has no changes, and the two rules are after the call what
\* parseRule made them.
C23_ChangesAreSetDifference ==
  LET original == parsedRules[1]
      converted == parsedRules[2]
      changes == result.changes
      KeysOf(rule) == { rule.options[k][1] : k \in 1..Len(rule.options) }
      OfType(type) == { k \in 1..Len(changes) : changes[k].type = type }
      About(type, key) == { k \in OfType(type) : changes[k].option = key }
  IN op = "analyzeConversion"
     => /\ Cardinality(OfType("protocol")) = IF original.protocol = converted.protocol THEN 0 ELSE 1
        /\ \A k \in OfType("protocol") :
             changes[k].from = original.protocol /\ changes[k].to = converted.protocol
        /\ \A key \in KeysOf(original) \cup KeysOf(converted) :
             /\ Cardinality(About("option_added", key))
                  = IF key \in KeysOf(converted) \ KeysOf(original) THEN 1 ELSE 0
             /\ Cardinality(About("option_removed", key))
                  = IF key \in KeysOf(original) \ KeysOf(converted) THEN 1 ELSE 0
        /\ Len(changes) = Cardinality(OfType("protocol"))
                            + Cardinality(KeysOf(converted) \ KeysOf(original))
                            + Cardinality(KeysOf(original) \ KeysOf(converted))
        /\ original = converted => changes = <<>>
        /\ \E before \in { parseRules(arg) } :
           \E i \in 1..Len(before) : original = before[i]
        /\ converted \in { original, parseRule(converted.raw) }

\* a rule and its conversion were compared: the protocol changed, an option
\* was added, another removed, and a third is in both with another value
C23_Witness ==
  /\ op = "analyzeConversion"
  /\ \E k \in 1..Len(result.changes) : result.changes[k].type = "protocol"
  /\ \E k \in 1..Len(result.changes) : result.changes[k].type = "option_added"
  /\ \E k \in 1..Len(result.changes) : result.changes[k].type = "option_removed"
  /\ GetOrEmpty(parsedRules[1].options, Key.sid) # GetOrEmpty(parsedRules[2].options, Key.sid)
  /\ ObjHas(parsedRules[1].options, Key.sid) /\ ObjHas(parsedRules[2].options, Key.sid)

\* C24: the recommendations of analyzeConversion hold the recommendation to
\* consider adding fast_pattern exactly when the content of the converted
\* rule is longer than 50 characters and the converted rule has no
\* fast_pattern option.
C24_FastPatternRecommended ==
  LET converted == parsedRules[2]
      recommended == \E k \in 1..Len(result.recommendations) :
                       result.recommendations[k].message = "Consider adding fast_pattern for long content strings"
  IN op = "analyzeConversion"
     => (recommended <=> /\ Len(GetOrEmpty(converted.options, Key.content)) > 50
                         /\ ~ObjHas(converted.options, Key.fast_pattern))

(***************************************************************************)
(* Classification                                                          *)
(***************************************************************************)
\* the score of one side over lines that isValidRule accepts
ScoreOfValid(lines, side) ==
  SumOver([i \in 1..Len(lines) |->
             IF side = "snort" THEN snortScoreOf(lines[i]) ELSE suricataScoreOf(lines[i])],
          Len(lines))

\* C25: a text of one valid rule line that matches no keyword of either
\* side is classified suricata exactly when the protocol token of its header
\* is http, tls, dns, smtp or ftp, whatever its action: the header adds 2 to
\* the Suricata score for these protocols and for no other.
C25_HeaderProtocolSignal ==
  LET lines == ValidLines(arg)
      line == lines[1]
      keywords == snortScoreOf(line) + suricataScoreOf(line) - (IF alertAppProtocol(line) THEN 2 ELSE 0)
  IN (op = "detectRuleType" /\ Len(lines) = 1 /\ keywords = 0)
     => (result = <<"s","u","r","i","c","a","t","a">>
           <=> ToLowerCase(parseRule(Trim(line)).protocol) \in AppProtocols)

\* C28: detectRuleType never answers snort on the text that convertToSuricata
\* returned for a text with a valid rule, and never suricata on the text that
\* convertToSnort returned for one.
C28_ConverterAndClassifierAgree ==
  (Len(chain) = 2 /\ op = "detectRuleType" /\ ValidLines(input) # <<>>)
    => /\ chain[1] = "convertToSuricata" => result # <<"s","n","o","r","t">>
       /\ chain[1] = "convertToSnort" => result # <<"s","u","r","i","c","a","t","a">>

C10_RuleUnchangedByConversion ==
  op \in Conversions
    => \E parsed \in { parseRules(arg) } :
         /\ parsedRules = parsed
         /\ raised.rule > 0
              => OutputLines(result)[raised.rule] = formatRule(parsed[raised.rule])

\* a conversion rewrote the sid in its output and the rule object keeps 42
C10_Witness ==
  /\ op = "convertToSnort"
  /\ raised = NoRaise
  /\ Len(parsedRules) = 1
  /\ GetOrEmpty(parsedRules[1].options, Key.sid) = <<"4","2">>
  /\ SidOf(result) = <<"1","0","0","0","0","4","2">>

====
